---- MODULE Spec2Model ----
(***************************************************************************)
(* Model of the agent orchestrator of py-processor: the WebSocket chat     *)
(* handlers (routes/chat_routes.py), the orchestrator workflow             *)
(* (services/agent_orchestrator.py) and the PKG cache                       *)
(* (services/parser_service.py, db/neo4j_db.py).                            *)
(*                                                                         *)
(* Every inbound chat_message / approve_plan / reject_plan is dispatched   *)
(* to its handler in a greenlet of its own (async_mode = "gevent",         *)
(* src/app.py:107).  A handler runs without interruption between two       *)
(* blocking calls (git, LLM, graph DB, test subprocess); each such stretch *)
(* is one step of the handler's task here.                                 *)
(***************************************************************************)
EXTENDS Integers, Sequences, FiniteSets, TLC

VARIABLES
    active_sessions,  \* chat_routes.active_sessions: session_id -> entry
    conn,             \* per socket sid: "new" | "open" | "closed"
    creator,          \* history: per session_id, the sid whose handler created the entry
    tasks,            \* handler invocations (one per inbound event): locals + position
    out,              \* the events emitted by the latest step, with the emitting handler
    requested,        \* history: plan ids an approval_request has been emitted for
    next_task,        \* number of handler invocations dispatched so far
    next_plan,        \* number of plan ids drawn so far (uuid4 in the source)
    approval_required,\* AGENT_APPROVAL_REQUIRED == 'true'
    neo4j_pkg,        \* graph DB: project id -> stored PKG
    cloned,           \* <cwd>/cloned_repos/<name> exists
    pkg_json,         \* <repo>/pkg.json: absent, unreadable, or a PKG document
    git_sha,          \* git rev-parse HEAD of the clone (None: not a git tree)
    clock,            \* per project: PKG generations run so far (stamps generatedAt)
    last_load,        \* history: the latest direct LOAD_REPO / generate_pkg call
    execution,        \* _execute_plan called directly: its locals, the working tree, git
    query,            \* a PKG query called directly: its arguments and its results
    call              \* a planner, generator, route or store function called directly

vars == << active_sessions, conn, creator, tasks, out, requested, next_task,
           next_plan, approval_required, neo4j_pkg, cloned, pkg_json,
           git_sha, clock, last_load, execution, query, call >>

envVars == << neo4j_pkg, cloned, pkg_json, git_sha, clock >>

-----------------------------------------------------------------------------
(* Bounds *)

\* inbound events handled in one run
MaxTasks == 2
\* plans generated in one run
MaxPlans == 2
\* file changes of one plan
MaxChanges == 1
\* direct calls of the loader and the generator in one run
MaxCalls == 3
\* files named by the tasks of an executed plan
MaxFiles == 2
\* edges of the PKG that an impact query runs on
MaxEdges == 3
\* depth argument of an impact query
MaxDepth == 2
\* store_pkg calls on one graph
MaxStores == 2

-----------------------------------------------------------------------------
(* Value spaces *)

None == "None"

Sids == {"c1", "c2"}
\* uuid4() drawn for the entry of a socket
UuidOf(c) == IF c = "c1" THEN "u1" ELSE "u2"
UuidPool == {UuidOf(c) : c \in Sids}
\* session ids a client may send: the issued ones and one the server never issued
ClientIds == UuidPool \cup {"x"}
\* handler slots: MaxTasks inbound events and one more approve_plan or reject_plan
TaskIds == 1..(MaxTasks + 1)
PlanIds == 1..MaxPlans

UrlApp == [dir |-> "github.com/a", stem |-> "app", ext |-> ".git"]
UrlLib == [dir |-> "github.com/b", stem |-> "lib", ext |-> ".git"]
RepoUrls == {UrlApp, UrlLib}
Projects == {u.stem : u \in RepoUrls}
Shas == {"sha1", "sha2"}

\* os.path.splitext(os.path.basename(repo_url))[0]
ProjectIdOfUrl(url) == url.stem

\* os.path.join(os.getcwd(), "cloned_repos", repo_name)
FolderPath(name) == << "cloned_repos", name >>

\* Path(folder_path).name
PathName(path) == path[Len(path)]

\* HEAD of a fresh clone
RemoteHead(project) == "sha1"

\* Python's None / missing key, one per value shape
NoUrl == [dir |-> None, stem |-> None, ext |-> None]
NoPath == << >>
NoPlan == 0
NoPkg == [id |-> None, rootPath |-> NoPath, gitSha |-> None, generatedAt |-> 0]
\* a pkg.json that json.load cannot read
Corrupt == [id |-> "corrupt", rootPath |-> NoPath, gitSha |-> None, generatedAt |-> 0]

HasUrl(u) == u # NoUrl
HasPath(p) == p # NoPath
HasPkg(d) == d # NoPkg

-----------------------------------------------------------------------------
(* Events *)

\* AgentOrchestrator._stream_update: socketio.emit("agent_update", {type, stage, ...}, room=sid)
StreamUpdate(type, stage, plan) ==
    [name |-> "agent_update", type |-> type, stage |-> stage, plan_id |-> plan]

\* flask_socketio.emit(name, {type, ...}) from a route handler (no stage)
RouteEmit(name, type, plan) ==
    [name |-> name, type |-> type, stage |-> None, plan_id |-> plan]

IsError(e) == e.name = "error" \/ e.type = "error"

-----------------------------------------------------------------------------
(* PKG store: graph DB and file cache *)

\* The stores as one handler step sees them; neo4j_up: neo4j_db.verify_connection()
\* during that step
Env(neo4j_up) ==
    [neo4j_up |-> neo4j_up, neo4j_pkg |-> neo4j_pkg, cloned |-> cloned,
     pkg_json |-> pkg_json, git_sha |-> git_sha, clock |-> clock]

\* neo4j_db.check_pkg_stored: False when not connected, else "a Project node exists"
check_pkg_stored(E, project_id) ==
    E.neo4j_up /\ HasPkg(E.neo4j_pkg[project_id])

\* neo4j_db.load_pkg_from_neo4j: None when not connected, not stored, or on a
\* query error (ok = FALSE); else the reconstructed document
load_pkg_from_neo4j(E, project_id, ok) ==
    IF check_pkg_stored(E, project_id) /\ ok THEN E.neo4j_pkg[project_id] ELSE NoPkg

\* neo4j_db.store_pkg: a no-op returning False when not connected or on error
store_pkg(E, pkg, ok) ==
    IF E.neo4j_up /\ ok
    THEN [E EXCEPT !.neo4j_pkg[pkg.id] = pkg]
    ELSE E

\* project_metadata.get_git_sha
get_git_sha(E, repo_path) == E.git_sha[PathName(repo_path)]

\* PKGGenerator.generate_pkg: build the document, write pkg.json, store to the graph DB
PKGGenerator_generate_pkg(E, repo_path, storeOk) ==
    LET pkg == [id |-> PathName(repo_path), rootPath |-> repo_path,
                gitSha |-> get_git_sha(E, repo_path),
                generatedAt |-> E.clock[PathName(repo_path)] + 1]
        E1 == [E EXCEPT !.clock[PathName(repo_path)] = @ + 1,
                         !.pkg_json[PathName(repo_path)] = pkg]
    IN [pkg |-> pkg, env |-> store_pkg(E1, pkg, storeOk)]

\* variant: a cached document is valid whenever the two SHAs compare equal
CacheValid_equal(cached_sha, current_sha) ==
    cached_sha = current_sha

\* parser_service.generate_pkg, lines 108-119: the cached document is used only
\* when both SHAs are present and equal
CacheValid(cached_sha, current_sha) ==
    cached_sha # None /\ current_sha # None /\ cached_sha = current_sha

\* parser_service.generate_pkg.  genOk = FALSE: the generator raises.
\* Result: raised, pkg, env, invoked (PKGGenerator was run), regenerated (it ran
\* to completion)
generate_pkg(E, repo_path, use_cache, genOk, storeOk) ==
    LET file == E.pkg_json[PathName(repo_path)]
        readable == use_cache /\ HasPkg(file) /\ file # Corrupt
    IN IF readable /\ CacheValid(file.gitSha, get_git_sha(E, repo_path))
       THEN [raised |-> FALSE, pkg |-> file, env |-> E, invoked |-> FALSE,
             regenerated |-> FALSE]
       ELSE IF genOk
            THEN LET g == PKGGenerator_generate_pkg(E, repo_path, storeOk)
                 IN [raised |-> FALSE, pkg |-> g.pkg, env |-> g.env, invoked |-> TRUE,
                     regenerated |-> TRUE]
            ELSE [raised |-> TRUE, pkg |-> NoPkg, env |-> E, invoked |-> TRUE,
                  regenerated |-> FALSE]

\* variant: _load_pkg consults the file cache before the graph DB
load_pkg_file_first(E, repo_path, project_id, oc) ==
    LET fromDb == load_pkg_from_neo4j(E, project_id, oc.neo_load2)
        cached == generate_pkg(E, repo_path, TRUE, oc.gen1, oc.store)
        regen  == generate_pkg(E, repo_path, FALSE, oc.gen2, oc.store)
    IN IF ~cached.raised /\ ~cached.regenerated
       THEN [pkg |-> cached.pkg, env |-> cached.env, source |-> "file"]
       ELSE IF check_pkg_stored(E, project_id) /\ HasPkg(fromDb)
       THEN [pkg |-> fromDb, env |-> E, source |-> "neo4j"]
       ELSE IF ~cached.raised
            THEN [pkg |-> cached.pkg, env |-> cached.env, source |-> "regenerate"]
            ELSE IF ~regen.raised
                 THEN [pkg |-> regen.pkg, env |-> regen.env, source |-> "regenerate"]
                 ELSE [pkg |-> NoPkg, env |-> E, source |-> "none"]

\* AgentOrchestrator._load_pkg: graph DB, then file cache, then regenerate.
\* oc: outcomes of the external calls (neo_load2, gen1, gen2, store)
load_pkg(E, repo_path, project_id, oc) ==
    LET fromDb == load_pkg_from_neo4j(E, project_id, oc.neo_load2)
        cached == generate_pkg(E, repo_path, TRUE, oc.gen1, oc.store)
        regen  == generate_pkg(E, repo_path, FALSE, oc.gen2, oc.store)
    IN IF check_pkg_stored(E, project_id) /\ HasPkg(fromDb)
       THEN [pkg |-> fromDb, env |-> E, source |-> "neo4j"]
       ELSE IF ~cached.raised
            THEN [pkg |-> cached.pkg, env |-> cached.env,
                  source |-> IF cached.regenerated THEN "regenerate" ELSE "file"]
            ELSE IF ~regen.raised
                 THEN [pkg |-> regen.pkg, env |-> regen.env, source |-> "regenerate"]
                 ELSE [pkg |-> NoPkg, env |-> E, source |-> "none"]

-----------------------------------------------------------------------------
(* Session registry *)

\* "{}": an entry with no keys
EmptySession ==
    [present |-> TRUE, sid |-> None, repo_url |-> NoUrl, repo_path |-> NoPath,
     pkg_data |-> NoPkg, current_intent |-> None, current_plan |-> NoPlan,
     pending_approval |-> NoPlan]

\* no entry under the key
Absent == [EmptySession EXCEPT !.present = FALSE]

\* handle_connect / handle_chat_message: the entry created for a socket
NewSession(sid) == [EmptySession EXCEPT !.sid = sid]

\* self.sessions.get(session_id, {})
SessionGet(S, session_id) ==
    IF session_id \in DOMAIN S /\ S[session_id].present THEN S[session_id] ELSE EmptySession

\* "if session_id not in self.sessions: self.sessions[session_id] = {}"
EnsureEntry(S, session_id) ==
    IF ~S[session_id].present THEN [S EXCEPT ![session_id] = EmptySession] ELSE S

\* _ensure_repo_loaded, line 258
SessionCacheHit(session, repo_url) ==
    session.repo_url = repo_url /\ HasPkg(session.pkg_data)

\* Outcomes of the external calls of one load: graph DB reachable, its two load
\* queries, git clone, the two generator runs, the graph DB store.  No query or
\* store succeeds on an unreachable graph DB, and the second generator run is
\* reached only when the first has raised.
Outcomes ==
    {oc \in [neo_up : BOOLEAN, neo_load1 : BOOLEAN, clone : BOOLEAN,
             neo_load2 : BOOLEAN, gen1 : BOOLEAN, gen2 : BOOLEAN, store : BOOLEAN] :
        /\ ~oc.neo_up => (~oc.neo_load1 /\ ~oc.neo_load2 /\ ~oc.store)
        /\ oc.gen1 => oc.gen2}

\* the outcomes the server specification explores: the graph DB is up or down for
\* the whole load, the checkout can be cloned and parsed or it cannot
ServerOutcomes ==
    {oc \in Outcomes : /\ oc.neo_load1 = oc.neo_up /\ oc.neo_load2 = oc.neo_up
                       /\ oc.store = oc.neo_up
                       /\ oc.gen1 = oc.clone /\ oc.gen2 = oc.clone}

LoadFailed(S, E, events) ==
    [repo_path |-> NoPath, pkg_data |-> NoPkg, sessions |-> S, env |-> E,
     events |-> events, source |-> "none"]

\* AgentOrchestrator._ensure_repo_loaded, lines 262-392: graph DB, clone, _load_pkg
load_uncached(S, E, session_id, repo_url, oc) ==
    LET session == SessionGet(S, session_id)
        project_id == ProjectIdOfUrl(repo_url)
        stored == check_pkg_stored(E, project_id)
        fromDb == load_pkg_from_neo4j(E, project_id, oc.neo_load1)
        ev1 == IF stored THEN << StreamUpdate("status", "pkg_loading", NoPlan) >> ELSE << >>
    IN IF stored /\ HasPkg(fromDb)
          THEN LET repo_path == IF HasPath(session.repo_path) THEN session.repo_path
                                ELSE fromDb.rootPath
                   S1 == [EnsureEntry(S, session_id) EXCEPT
                             ![session_id].repo_url = repo_url,
                             ![session_id].repo_path = repo_path,
                             ![session_id].pkg_data = fromDb]
               IN [repo_path |-> repo_path, pkg_data |-> fromDb, sessions |-> S1,
                   env |-> E, source |-> "neo4j",
                   events |-> ev1 \o << StreamUpdate("status", "pkg_loading", NoPlan) >>]
          ELSE
          LET repo_name == ProjectIdOfUrl(repo_url)
              folder_path == FolderPath(repo_name)
              ev2 == ev1 \o << StreamUpdate("status", "repo_loading", NoPlan) >>
              mustClone == ~E.cloned[repo_name]
              ev3 == IF mustClone
                     THEN ev2 \o << StreamUpdate("log", "repo_loading", NoPlan) >>
                     ELSE ev2
              E1 == IF mustClone
                    THEN [E EXCEPT !.cloned[repo_name] = TRUE,
                                   !.git_sha[repo_name] = RemoteHead(repo_name)]
                    ELSE E
          IN IF mustClone /\ ~oc.clone THEN LoadFailed(S, E, ev3)
             ELSE
             LET ev4 == ev3 \o << StreamUpdate("status", "pkg_generation", NoPlan) >>
                 l == load_pkg(E1, folder_path, PathName(folder_path), oc)
             IN IF ~HasPkg(l.pkg) THEN LoadFailed(S, l.env, ev4)
                ELSE
                LET S1 == [EnsureEntry(S, session_id) EXCEPT
                              ![session_id].repo_url = repo_url,
                              ![session_id].repo_path = folder_path,
                              ![session_id].pkg_data = l.pkg]
                IN [repo_path |-> folder_path, pkg_data |-> l.pkg, sessions |-> S1,
                    env |-> l.env, source |-> l.source,
                    events |-> ev4 \o << StreamUpdate("status", "pkg_generation", NoPlan) >>]

\* AgentOrchestrator._ensure_repo_loaded
ensure_repo_loaded(S, E, session_id, url_arg, oc) ==
    LET session == SessionGet(S, session_id)
        repo_url == IF HasUrl(url_arg) THEN url_arg ELSE session.repo_url
    IN IF ~HasUrl(repo_url) THEN LoadFailed(S, E, << >>)
       ELSE IF SessionCacheHit(session, repo_url)
       THEN [repo_path |-> session.repo_path, pkg_data |-> session.pkg_data,
             sessions |-> S, env |-> E, events |-> << >>, source |-> "session"]
       ELSE load_uncached(S, E, session_id, repo_url, oc)

SetEnv(E) ==
    /\ neo4j_pkg' = E.neo4j_pkg
    /\ cloned' = E.cloned
    /\ pkg_json' = E.pkg_json
    /\ git_sha' = E.git_sha
    /\ clock' = E.clock

-----------------------------------------------------------------------------
(* Handler invocations *)

\* intent_category; any value other than the first two is routed as code_change
Categories == {"informational_query", "diagram_request", "code_change"}

\* Position in the state machine of spec section 4.17 that a stage name belongs to
\* (0: not a phase of the workflow)
PhaseRank(stage) ==
    CASE stage = "intent_extraction" -> 1
      [] stage \in {"pkg_loading", "repo_loading", "pkg_generation"} -> 2
      [] stage \in {"pkg_query", "impact_analysis", "query_handling", "diagram_generation"} -> 3
      [] stage = "planning" -> 4
      [] stage = "approval" -> 5
      [] stage = "editing" -> 6
      [] stage = "testing" -> 7
      [] stage = "verification" -> 8
      [] stage = "pr_creation" -> 9
      [] OTHER -> 0

Max(a, b) == IF a >= b THEN a ELSE b

\* an event that carries the payload of a phase: the extracted intent, the impact
\* result and the plan (streamed as log events), approval_request, code_change
Payload(e) ==
    \/ e.type \in {"approval_request", "code_change"}
    \/ e.type = "log" /\ e.stage \in {"intent_extraction", "impact_analysis", "planning"}

HasPayload(events) == \E i \in DOMAIN events : Payload(events[i])

RECURSIVE HighestRank(_)
HighestRank(events) ==
    IF events = << >> THEN 0
    ELSE Max(PhaseRank(Head(events).stage), HighestRank(Tail(events)))

FreeTask ==
    [kind |-> "none", pc |-> "free", sid |-> None, session_id |-> None,
     repo_url |-> NoUrl, repo_path |-> NoPath, pkg_data |-> NoPkg,
     plan_id |-> NoPlan, plan_arg |-> NoPlan, high |-> 0, payload |-> FALSE]

\* a handler that has returned keeps no locals
DoneTask == [FreeTask EXCEPT !.pc = "done"]

Running(t) == tasks[t].pc \notin {"free", "done"}

NoOut == [t |-> 0, kind |-> "none", sid |-> None, session_id |-> None,
          plan_id |-> NoPlan, plan_arg |-> NoPlan, events |-> << >>]

\* One step of handler invocation t: its new locals and the events it emits
\* (to the socket task.sid, enveloped with task.session_id).  high and payload
\* are history: the furthest phase and whether a payload event has been streamed
Step(t, task, events) ==
    /\ tasks' = [tasks EXCEPT ![t] =
                    IF task.pc = "done" THEN DoneTask
                    ELSE [task EXCEPT !.high = Max(@, HighestRank(events)),
                                      !.payload = @ \/ HasPayload(events)]]
    /\ out' = [t |-> t, kind |-> task.kind, sid |-> task.sid,
               session_id |-> task.session_id, plan_id |-> task.plan_id,
               plan_arg |-> task.plan_arg, events |-> events]
    /\ requested' = requested \cup
                      {events[i].plan_id : i \in {j \in DOMAIN events :
                                                    events[j].type = "approval_request"}}

\* every external call of a load fails
NoOutcome ==
    [neo_up |-> FALSE, neo_load1 |-> FALSE, clone |-> FALSE, neo_load2 |-> FALSE,
     gen1 |-> FALSE, gen2 |-> FALSE, store |-> FALSE]

\* history of the latest direct call of the loader or the generator.
\* db_up: the graph DB was reachable; db_ok: it also answered a load query
NoLoad == [n |-> 0, kind |-> "none", session_id |-> None, url |-> NoUrl,
           project |-> None, source |-> "none", pkg |-> NoPkg, raised |-> FALSE,
           invoked |-> FALSE, use_cache |-> FALSE, db_up |-> FALSE, db_ok |-> FALSE]

\* variant: the approval gate without the configured AGENT_APPROVAL_REQUIRED
RequiresApproval_unconfigured(human_approval, impact_approval, config_required) ==
    human_approval \/ impact_approval

\* _execute_workflow, lines 617-621
RequiresApproval(human_approval, impact_approval, config_required) ==
    human_approval \/ impact_approval \/ config_required

\* the sid recorded as creator of an entry that a step brought into being
Created(S, S1, session_id, sid) ==
    IF ~S[session_id].present /\ S1[session_id].present
    THEN [creator EXCEPT ![session_id] = sid] ELSE creator

-----------------------------------------------------------------------------
(* Socket handlers: routes/chat_routes.py *)

\* session ids the server has issued so far
IssuedIds == {k \in UuidPool : creator[k] # None}

\* session_id of a chat_message from socket c: omitted, or another client's
ChatIds(c) == {None} \cup (IssuedIds \ {UuidOf(c)})

\* session_id of an approve_plan / reject_plan: omitted, issued, or never issued
DecisionIds == {None, "x"} \cup IssuedIds

\* repo_url of a chat_message
ChatUrls == {NoUrl, UrlApp}

\* the entries whose 'sid' is the socket's
SessionsOfSid(S, c) == {k \in ClientIds : S[k].present /\ S[k].sid = c}

\* handle_connect (sockets are named in the order they connect)
Connect(c) ==
    /\ conn[c] = "new"
    /\ c = "c2" => conn["c1"] # "new"
    /\ creator[UuidOf(c)] = None
    /\ active_sessions' = [active_sessions EXCEPT ![UuidOf(c)] = NewSession(c)]
    /\ creator' = [creator EXCEPT ![UuidOf(c)] = c]
    /\ conn' = [conn EXCEPT ![c] = "open"]
    /\ out' = [NoOut EXCEPT !.kind = "connect", !.sid = c, !.session_id = UuidOf(c),
                            !.events = << RouteEmit("connected", "connected", NoPlan) >>]
    /\ UNCHANGED << tasks, requested, next_task, next_plan, approval_required,
                    envVars, last_load, execution, query, call >>

\* handle_disconnect
Disconnect(c) ==
    /\ conn[c] = "open"
    /\ conn' = [conn EXCEPT ![c] = "closed"]
    /\ IF SessionsOfSid(active_sessions, c) = {}
       THEN active_sessions' = active_sessions
       ELSE \E k \in SessionsOfSid(active_sessions, c) :
              active_sessions' = [active_sessions EXCEPT ![k] = Absent]
    /\ out' = [NoOut EXCEPT !.kind = "disconnect", !.sid = c]
    /\ UNCHANGED << creator, tasks, requested, next_task, next_plan,
                    approval_required, envVars, last_load, execution, query, call >>

\* handle_chat_message up to the first blocking call of process_user_request
ChatMessage(c, empty, url, sid_arg) ==
    LET t == next_task + 1
        bySid == SessionsOfSid(active_sessions, c)
        rejected == << RouteEmit("error", "validation_error", NoPlan) >>
    IN
    /\ next_task < MaxTasks
    /\ conn[c] = "open"
    /\ next_task' = t
    /\ IF empty
       THEN /\ Step(t, [FreeTask EXCEPT !.kind = "chat", !.pc = "done", !.sid = c], rejected)
            /\ UNCHANGED << active_sessions, creator >>
       ELSE \E session_id \in ClientIds :
            /\ IF sid_arg # None THEN session_id = sid_arg
               ELSE IF bySid # {} THEN session_id \in bySid
               ELSE session_id = UuidOf(c) /\ creator[session_id] = None
            /\ LET S0 == IF sid_arg = None /\ bySid = {}
                         THEN [active_sessions EXCEPT ![session_id] = NewSession(c)]
                         ELSE active_sessions
                   keyError == HasUrl(url) /\ ~S0[session_id].present
                   S1 == IF HasUrl(url)
                         THEN [S0 EXCEPT ![session_id].repo_url = url,
                                         ![session_id].repo_path = NoPath]
                         ELSE S0
                   repo_url == IF ~HasUrl(url) /\ S1[session_id].present
                               THEN S1[session_id].repo_url ELSE url
                   ack == << RouteEmit("agent_update", "status", NoPlan),
                             StreamUpdate("status", "intent_extraction", NoPlan) >>
                   analyzing == << StreamUpdate("status", "intent_extraction", NoPlan) >>
                   task == [FreeTask EXCEPT !.kind = "chat", !.sid = c,
                                            !.session_id = session_id, !.repo_url = repo_url]
                   session == SessionGet(S1, session_id)
               IN
               /\ creator' = Created(active_sessions, S0, session_id, c)
               /\ IF keyError
                  THEN /\ active_sessions' = S0
                       /\ Step(t, [task EXCEPT !.pc = "done"], rejected)
                  ELSE /\ active_sessions' = S1
                       /\ IF ~HasUrl(repo_url)
                          THEN Step(t, [task EXCEPT !.pc = "intent"], ack \o analyzing)
                          ELSE IF SessionCacheHit(session, repo_url)
                          THEN Step(t, [task EXCEPT !.pc = "intent",
                                                    !.repo_path = session.repo_path,
                                                    !.pkg_data = session.pkg_data],
                                    ack \o analyzing)
                          ELSE Step(t, [task EXCEPT !.pc = "load"], ack)
    /\ UNCHANGED << conn, next_plan, approval_required, envVars, last_load, execution, query,
                    call >>

\* variant: the turn goes on to intent extraction after a failed load
LoadRepo_continues(t, oc) ==
    LET me == tasks[t]
        r == load_uncached(active_sessions, Env(oc.neo_up), me.session_id, me.repo_url, oc)
    IN
    /\ me.pc = "load"
    /\ active_sessions' = r.sessions
    /\ creator' = Created(active_sessions, r.sessions, me.session_id, me.sid)
    /\ SetEnv(r.env)
    /\ IF HasPkg(r.pkg_data)
       THEN Step(t, [me EXCEPT !.pc = "intent", !.repo_path = r.repo_path,
                               !.pkg_data = r.pkg_data],
                 r.events \o << StreamUpdate("status", "intent_extraction", NoPlan) >>)
       ELSE Step(t, [me EXCEPT !.pc = "intent"],
                 r.events \o << StreamUpdate("error", "repo_loading", NoPlan),
                                StreamUpdate("status", "intent_extraction", NoPlan) >>)
    /\ UNCHANGED << conn, next_task, next_plan, approval_required, last_load, execution, query,
                    call >>

\* process_user_request, lines 68-89: the uncached part of _ensure_repo_loaded
LoadRepo(t, oc) ==
    LET me == tasks[t]
        r == load_uncached(active_sessions, Env(oc.neo_up), me.session_id, me.repo_url, oc)
    IN
    /\ me.pc = "load"
    /\ active_sessions' = r.sessions
    /\ creator' = Created(active_sessions, r.sessions, me.session_id, me.sid)
    /\ SetEnv(r.env)
    /\ IF HasPkg(r.pkg_data)
       THEN Step(t, [me EXCEPT !.pc = "intent", !.repo_path = r.repo_path,
                               !.pkg_data = r.pkg_data],
                 r.events \o << StreamUpdate("status", "intent_extraction", NoPlan) >>)
       ELSE Step(t, [me EXCEPT !.pc = "done"],
                 r.events \o << StreamUpdate("error", "repo_loading", NoPlan) >>)
    /\ UNCHANGED << conn, next_task, next_plan, approval_required, last_load, execution, query,
                    call >>

-----------------------------------------------------------------------------
(* Orchestrator phases: services/agent_orchestrator.py *)

\* _handle_informational_query / _handle_diagram_request
Answer(category, ok) ==
    LET stage == IF category = "informational_query" THEN "query_handling"
                 ELSE "diagram_generation"
        reply == IF category = "informational_query" THEN "query_response"
                 ELSE "diagram_response"
    IN << StreamUpdate("status", stage, NoPlan),
          StreamUpdate(IF ok THEN reply ELSE "error", stage, NoPlan) >>

\* process_user_request, lines 91-214: intent extraction, session update, routing
ExtractIntent(t, ok, category, answered, oc) ==
    LET me == tasks[t]
        sid == me.session_id
        S1 == [EnsureEntry(active_sessions, sid) EXCEPT
                  ![sid].current_intent = "intent",
                  ![sid].repo_path = me.repo_path,
                  ![sid].pkg_data = me.pkg_data]
        log == << StreamUpdate("log", "intent_extraction", NoPlan) >>
        readOnly == category \in {"informational_query", "diagram_request"}
        stage == IF category = "informational_query" THEN "query_handling"
                 ELSE "diagram_generation"
        repo_url == IF ~HasUrl(me.repo_url) THEN S1[sid].repo_url ELSE me.repo_url
        r == ensure_repo_loaded(S1, Env(oc.neo_up), sid, repo_url, oc)
        S2 == IF HasPkg(r.pkg_data)
              THEN [r.sessions EXCEPT
                       ![sid].pkg_data = r.pkg_data,
                       ![sid].repo_path = IF HasPath(r.repo_path) THEN r.repo_path ELSE @]
              ELSE r.sessions
    IN
    /\ me.pc = "intent"
    /\ IF ~ok
       THEN /\ Step(t, [me EXCEPT !.pc = "done"],
                    << StreamUpdate("error", "intent_extraction", NoPlan) >>)
            /\ UNCHANGED << active_sessions, creator, envVars >>
       ELSE
       /\ creator' = Created(active_sessions, S1, sid, me.sid)
       /\ IF readOnly /\ ~HasPkg(me.pkg_data)
          THEN /\ active_sessions' = S2
               /\ SetEnv(r.env)
               /\ Step(t, [me EXCEPT !.pc = "done"],
                       log \o r.events \o
                          (IF HasPkg(r.pkg_data) THEN Answer(category, answered)
                           ELSE << StreamUpdate("error", stage, NoPlan) >>))
          ELSE
          /\ active_sessions' = S1
          /\ UNCHANGED envVars
          /\ IF readOnly
             THEN Step(t, [me EXCEPT !.pc = "done"], log \o Answer(category, answered))
             ELSE IF HasPath(me.repo_path) /\ HasPkg(me.pkg_data)
             THEN Step(t, [me EXCEPT !.pc = "plan"],
                       log \o << StreamUpdate("status", "pkg_query", NoPlan) >>)
             ELSE Step(t, [me EXCEPT !.pc = "done"],
                       log \o << StreamUpdate("status", "waiting", NoPlan) >>)
    /\ UNCHANGED << conn, next_task, next_plan, approval_required, last_load, execution, query,
                    call >>

\* _execute_workflow: PKG query, impact analysis, planning and the approval gate.
\* human_approval: intent['human_approval']; impact_approval: impact_result['requires_approval']
PlanChange(t, outcome, human_approval, impact_approval) ==
    LET me == tasks[t]
        sid == me.session_id
        plan_id == next_plan + 1
        S1 == [EnsureEntry(active_sessions, sid) EXCEPT
                  ![sid].current_plan = plan_id,
                  ![sid].pending_approval = plan_id]
        queried == << StreamUpdate("log", "pkg_query", NoPlan),
                      StreamUpdate("status", "impact_analysis", NoPlan) >>
        analyzed == queried \o << StreamUpdate("log", "impact_analysis", NoPlan),
                                  StreamUpdate("status", "planning", NoPlan) >>
        planned == analyzed \o << StreamUpdate("log", "planning", NoPlan) >>
    IN
    /\ me.pc = "plan"
    /\ IF outcome # "ok"
       THEN /\ Step(t, [me EXCEPT !.pc = "done"],
                    CASE outcome = "query_failed" ->
                           << StreamUpdate("error", "pkg_query", NoPlan) >>
                      [] outcome = "impact_failed" ->
                           queried \o << StreamUpdate("error", "impact_analysis", NoPlan) >>
                      [] OTHER ->
                           analyzed \o << StreamUpdate("error", "planning", NoPlan) >>)
            /\ UNCHANGED << active_sessions, creator, next_plan >>
       ELSE
       /\ next_plan < MaxPlans
       /\ next_plan' = plan_id
       /\ active_sessions' = S1
       /\ creator' = Created(active_sessions, S1, sid, me.sid)
       /\ IF RequiresApproval(human_approval, impact_approval, approval_required)
          THEN Step(t, [me EXCEPT !.pc = "done", !.plan_id = plan_id],
                    planned \o << StreamUpdate("approval_request", "planning", plan_id) >>)
          ELSE Step(t, [me EXCEPT !.pc = "edit", !.plan_id = plan_id],
                    planned \o << StreamUpdate("status", "editing", plan_id) >>)
    /\ UNCHANGED << conn, next_task, approval_required, envVars, last_load, execution, query,
                    call >>

\* the code_change events of one editing phase: one per change, then the overall diff
CodeChanges(n, plan_id) ==
    [i \in 1..(n + 1) |-> StreamUpdate("code_change", "editing", plan_id)]

PlanOutcomes ==
    {"branch_failed", "edit_failed", "test_failed", "verify_failed", "not_ready",
     "pr_failed", "pr_created"}

\* _execute_plan after its first status event: editing, testing, verification, PR.
\* Each phase ends the turn with an error event when it raises.
PlanEvents(outcome, n, p) ==
    LET branched == << StreamUpdate("log", "editing", p) >>
        edited == branched \o CodeChanges(n, p) \o << StreamUpdate("status", "testing", p) >>
        tested == edited \o << StreamUpdate("test_result", "testing", p),
                               StreamUpdate("status", "verification", p) >>
        verified == tested \o << StreamUpdate("log", "verification", p) >>
        pr == verified \o << StreamUpdate("status", "pr_creation", p) >>
    IN CASE outcome = "branch_failed" -> << StreamUpdate("error", "editing", p) >>
         [] outcome = "edit_failed" -> branched \o << StreamUpdate("error", "editing", p) >>
         [] outcome = "test_failed" -> edited \o << StreamUpdate("error", "testing", p) >>
         [] outcome = "verify_failed" -> tested \o << StreamUpdate("error", "verification", p) >>
         [] outcome = "not_ready" -> verified \o << StreamUpdate("summary", "verification", p) >>
         [] outcome = "pr_failed" -> pr \o << StreamUpdate("error", "pr_creation", p) >>
         [] OTHER -> pr \o << StreamUpdate("summary", "pr_creation", p) >>

\* AgentOrchestrator._execute_plan
ExecutePlan(t, outcome, n) ==
    LET me == tasks[t]
    IN
    /\ me.pc = "edit"
    /\ Step(t, [me EXCEPT !.pc = "done"], PlanEvents(outcome, n, me.plan_id))
    /\ UNCHANGED << active_sessions, conn, creator, next_task, next_plan,
                    approval_required, envVars, last_load, execution, query, call >>

\* AgentOrchestrator.approve_plan: "ok" or the error it reports
ApproveCheck(S, session_id, plan_id) ==
    LET session == S[session_id]
    IN IF ~session.present \/ session = EmptySession THEN "session_not_found"
       ELSE IF session.current_plan = NoPlan \/ session.current_plan # plan_id
       THEN "plan_not_found"
       ELSE IF ~HasPath(session.repo_path) THEN "repo_path_not_found"
       ELSE "ok"

\* handle_approve_plan and AgentOrchestrator.approve_plan up to the editing
\* phase, as one of the first `limit` inbound events of the run
ApprovePlanWithin(limit, c, sid_arg, plan_arg) ==
    LET t == next_task + 1
        task == [FreeTask EXCEPT !.kind = "approve", !.sid = c, !.session_id = sid_arg,
                                 !.plan_arg = plan_arg]
        ack == << RouteEmit("agent_update", "status", plan_arg) >>
    IN
    /\ next_task < limit
    /\ conn[c] = "open"
    /\ next_task' = t
    /\ IF sid_arg = None
       THEN /\ Step(t, [task EXCEPT !.pc = "done"],
                    << RouteEmit("error", "validation_error", NoPlan) >>)
            /\ UNCHANGED active_sessions
       ELSE IF ApproveCheck(active_sessions, sid_arg, plan_arg) # "ok"
       THEN /\ Step(t, [task EXCEPT !.pc = "done"],
                    ack \o << StreamUpdate("error", "approval", NoPlan) >>)
            /\ UNCHANGED active_sessions
       ELSE /\ active_sessions' = [active_sessions EXCEPT ![sid_arg].pending_approval = NoPlan]
            /\ Step(t, [task EXCEPT !.pc = "edit",
                                    !.plan_id = active_sessions[sid_arg].current_plan,
                                    !.repo_path = active_sessions[sid_arg].repo_path],
                    ack \o << StreamUpdate("status", "approval", plan_arg),
                              StreamUpdate("status", "editing",
                                           active_sessions[sid_arg].current_plan) >>)
    /\ UNCHANGED << conn, creator, next_plan, approval_required, envVars, last_load, execution, query,
                    call >>

ApprovePlan(c, sid_arg, plan_arg) == ApprovePlanWithin(MaxTasks, c, sid_arg, plan_arg)

\* handle_reject_plan, as one of the first `limit` inbound events of the run
RejectPlanWithin(limit, c, sid_arg, plan_arg) ==
    LET t == next_task + 1
        task == [FreeTask EXCEPT !.kind = "reject", !.pc = "done", !.sid = c,
                                 !.session_id = sid_arg, !.plan_arg = plan_arg]
    IN
    /\ next_task < limit
    /\ conn[c] = "open"
    /\ next_task' = t
    /\ IF sid_arg = None
       THEN Step(t, task, << RouteEmit("error", "validation_error", NoPlan) >>)
       ELSE Step(t, task, << RouteEmit("agent_update", "status", plan_arg) >>)
    /\ UNCHANGED << active_sessions, conn, creator, next_plan, approval_required,
                    envVars, last_load, execution, query, call >>

RejectPlan(c, sid_arg, plan_arg) == RejectPlanWithin(MaxTasks, c, sid_arg, plan_arg)

-----------------------------------------------------------------------------
(* Plan execution: agents/code_editor.py, agents/test_runner.py,
   agents/pr_creator.py *)

\* files of the working tree that a plan may name
Files == {"a.py", "b.py"}

\* one (task, file) pair of plan['tasks']; create: _should_create_file(changes, task)
PlanItems == [task_id : 1..MaxFiles, file : Files, create : BOOLEAN]

\* plan['tasks'] flattened in the order apply_edits visits it: tasks numbered from
\* 1 in order, the creation keywords being a property of the task
ExecPlans ==
    {p \in UNION {[1..n -> PlanItems] : n \in 1..MaxFiles} :
        /\ p[1].task_id = 1
        /\ \A i \in DOMAIN p : i > 1 =>
              /\ p[i].task_id \in {p[i-1].task_id, p[i-1].task_id + 1}
              /\ p[i].task_id = p[i-1].task_id => p[i].create = p[i-1].create}

\* content of a file of the working tree: absent, as cloned ("orig"), written by
\* the editor ("new"), written by the editor with content for which the Code
\* Validator reports fatal errors ("new_fatal")
Contents == {"absent", "orig", "new", "new_fatal"}

\* LLM result: nothing usable ("none": empty content, or the original unchanged)
\* or new content
LlmResults == {"none", "content"}

\* CodeValidator.validate_all on the new content: valid, fatal errors, or it raises
Validations == {"valid", "fatal", "raises"}

\* CodeEditExecutor._create_file: the content is written, then validated; a
\* failed validation is logged only
create_file(tree, file, llm, validation) ==
    IF llm = "none"
    THEN [success |-> FALSE, error |-> "Failed to generate file content", tree |-> tree]
    ELSE [success |-> TRUE, error |-> None,
          tree |-> [tree EXCEPT ![file] = IF validation = "fatal" THEN "new_fatal"
                                          ELSE "new"]]

\* CodeEditExecutor._edit_file: the content is validated, then written
edit_file(tree, file, llm, validation) ==
    IF llm = "none"
    THEN [success |-> FALSE, error |-> "No changes applied", tree |-> tree]
    ELSE IF validation = "fatal"
    THEN [success |-> FALSE, error |-> "Validation failed", tree |-> tree]
    ELSE [success |-> TRUE, error |-> None, tree |-> [tree EXCEPT ![file] = "new"]]

\* CodeEditExecutor.apply_edits, the body of its loop for one file of one task
apply_edit(tree, changes, errors, item, llm, validation) ==
    LET missing == tree[item.file] = "absent"
        r == IF missing THEN create_file(tree, item.file, llm, validation)
             ELSE edit_file(tree, item.file, llm, validation)
        failed(error) == Append(errors, [file |-> item.file, error |-> error,
                                         task_id |-> item.task_id])
    IN IF missing /\ ~item.create
       THEN [tree |-> tree, changes |-> changes, errors |-> failed("File not found")]
       ELSE IF r.success
       THEN [tree |-> r.tree,
             changes |-> Append(changes,
                                [file |-> item.file,
                                 status |-> IF missing THEN "created" ELSE "modified",
                                 task_id |-> item.task_id]),
             errors |-> errors]
       ELSE [tree |-> r.tree, changes |-> changes, errors |-> failed(r.error)]

\* TestRunner._detect_language
Languages == {"python", "typescript", "unknown"}

\* the test subprocess: all tests pass, some fail, subprocess.TimeoutExpired, or
\* another exception (the executable is missing)
TestOutcomes == {"pass", "fail", "timeout", "oserror"}

NoResults ==
    [raised |-> FALSE, tests_passed |-> 0, tests_failed |-> 0, build_success |-> FALSE,
     error |-> None]

\* variant: subprocess.TimeoutExpired is not caught by the runner
run_python_tests_raising(outcome) ==
    CASE outcome = "pass" -> [NoResults EXCEPT !.tests_passed = 1, !.build_success = TRUE]
      [] outcome = "fail" -> [NoResults EXCEPT !.tests_failed = 1]
      [] outcome = "timeout" -> [NoResults EXCEPT !.raised = TRUE]
      [] OTHER -> [NoResults EXCEPT !.error = "OSError"]

\* TestRunner._run_python_tests
run_python_tests(outcome) ==
    CASE outcome = "pass" -> [NoResults EXCEPT !.tests_passed = 1, !.build_success = TRUE]
      [] outcome = "fail" -> [NoResults EXCEPT !.tests_failed = 1]
      [] outcome = "timeout" -> [NoResults EXCEPT !.error = "Timeout"]
      [] OTHER -> [NoResults EXCEPT !.error = "OSError"]

\* TestRunner._run_typescript_tests (package.json is there: the language was
\* detected by it)
run_typescript_tests(outcome) ==
    CASE outcome = "pass" -> [NoResults EXCEPT !.tests_passed = 1, !.build_success = TRUE]
      [] outcome = "fail" -> [NoResults EXCEPT !.tests_failed = 1]
      [] outcome = "timeout" -> [NoResults EXCEPT !.error = "Timeout"]
      [] OTHER -> [NoResults EXCEPT !.error = "OSError"]

\* TestRunner.run_tests
run_tests(language, outcome) ==
    CASE language = "python" -> run_python_tests(outcome)
      [] language = "typescript" -> run_typescript_tests(outcome)
      [] OTHER -> [NoResults EXCEPT !.error = "Unsupported language"]

\* the code-host API: the pull request is created, the API answers with an
\* error, or the checkout has no remote URL to derive the repository from
ApiOutcomes == {"ok", "github_error", "no_remote"}

\* PRCreator.create_pr: a result dictionary in every case; called: the code-host
\* API was asked to create the pull request
create_pr(github, api) ==
    IF ~github
    THEN [success |-> FALSE, called |-> FALSE, error |-> "GitHub client not initialized",
          url |-> None]
    ELSE CASE api = "no_remote" ->
                [success |-> FALSE, called |-> FALSE,
                 error |-> "Could not determine repository URL", url |-> None]
           [] api = "github_error" ->
                [success |-> FALSE, called |-> TRUE, error |-> "GitHub API error",
                 url |-> None]
           [] OTHER ->
                [success |-> TRUE, called |-> TRUE, error |-> None, url |-> "pr_url"]

\* _execute_plan before it is called.  subprocess, api: history of the outcomes
\* of the test subprocess and of the code-host API; ops: history of the git and
\* code-host operations
NoExecution ==
    [pc |-> "idle", plan_id |-> NoPlan, plan |-> << >>, at |-> 0,
     tree |-> [f \in Files |-> "absent"], changes |-> << >>, errors |-> << >>,
     test_results |-> NoResults, subprocess |-> "not_run", api |-> "not_called",
     ops |-> << >>]

-----------------------------------------------------------------------------
(* PKG queries: services/pkg_query_engine.py *)

\* source files of the project
Paths == {"a.py", "b.py", "c.py"}

\* PKGGenerator: module id "mod:<path>" and symbol id "sym:<module id>:<name>",
\* as the sequence of their ':'-separated fields
ModId(path) == << "mod", path >>
SymId(path, name) == << "sym" >> \o ModId(path) \o << name >>

\* pkg['modules']: the ids in _module_by_id
ModuleIds == {ModId(path) : path \in Paths}

\* the ids an edge may run between
NodeIds == ModuleIds \cup {SymId("a.py", "f")}

\* PKGQueryEngine._extract_module_id: a module id is returned as it is; a symbol
\* id is split with split(":", 3) and "mod:" + parts[1] is returned; << >>: None
extract_module_id(id_string) ==
    IF id_string = << >> THEN << >>
    ELSE IF Head(id_string) = "mod" THEN id_string
    ELSE IF Head(id_string) = "sym" /\ Len(id_string) >= 3 THEN << "mod", id_string[2] >>
    ELSE << >>

\* get_impacted_modules, lines 161-180: the two adjacency maps built from the edges
Dependents(edges, m) ==
    {extract_module_id(e.to) : e \in {x \in edges : extract_module_id(x.from) = m}}

Dependencies(edges, m) ==
    {extract_module_id(e.from) : e \in {x \in edges : extract_module_id(x.to) = m}}

\* the elements of a set in the order its iteration yields them: by rank
RECURSIVE InOrder(_, _)
InOrder(set, rank) ==
    IF set = {} THEN << >>
    ELSE LET first == CHOOSE x \in set : \A y \in set : rank[x] <= rank[y]
         IN << first >> \o InOrder(set \ {first}, rank)

\* the queue entries for the neighbours in a set that are not visited yet
Entries(set, visited, d, rank) ==
    LET fresh == InOrder(set \ visited, rank)
    IN [i \in DOMAIN fresh |-> [id |-> fresh[i], depth |-> d]]

\* variant: the cut-off compares the two depths the other way round
Skipped_inverted(item, visited, depth) ==
    item.id \in visited \/ depth > item.depth

\* get_impacted_modules, line 188: "if current_id in visited or current_depth > depth"
Skipped(item, visited, depth) ==
    item.id \in visited \/ item.depth > depth

\* get_impacted_modules, lines 185-201: the traversal loop on a FIFO queue
RECURSIVE Traverse(_, _, _, _, _, _)
Traverse(edges, queue, visited, impacted, depth, rank) ==
    IF queue = << >> THEN impacted
    ELSE LET current == Head(queue)
             rest == Tail(queue)
         IN IF Skipped(current, visited, depth)
            THEN Traverse(edges, rest, visited, impacted, depth, rank)
            ELSE LET seen == visited \cup {current.id}
                 IN Traverse(edges,
                             rest \o Entries(Dependents(edges, current.id), seen,
                                             current.depth + 1, rank)
                                  \o Entries(Dependencies(edges, current.id), seen,
                                             current.depth + 1, rank),
                             seen, impacted \cup {current.id}, depth, rank)

\* PKGQueryEngine.get_impacted_modules without a Neo4j engine: impacted_module_ids
\* and the ids of impacted_modules
get_impacted_modules(edges, module_ids, depth, rank) ==
    LET usable == {e \in edges : /\ extract_module_id(e.from) # << >>
                                 /\ extract_module_id(e.to) # << >>}
        queue == [i \in DOMAIN module_ids |-> [id |-> module_ids[i], depth |-> 0]]
        impacted == Traverse(usable, queue, {},
                             {module_ids[i] : i \in DOMAIN module_ids}, depth, rank)
    IN [ids |-> impacted, modules |-> impacted \cap ModuleIds]

\* get_dependencies, lines 249-285: the in-memory computation. An edge out of
\* the module is counted as a callee and, by the elif, never as a caller
get_dependencies(edges, module_id) ==
    LET outgoing(e) == /\ extract_module_id(e.from) = module_id
                       /\ extract_module_id(e.to) # << >>
        incoming(e) == /\ ~outgoing(e)
                       /\ extract_module_id(e.to) = module_id
                       /\ extract_module_id(e.from) # << >>
        callees == {extract_module_id(e.to) : e \in {x \in edges : outgoing(x)}}
        callers == {extract_module_id(e.from) : e \in {x \in edges : incoming(x)}}
    IN [callers |-> callers \cap ModuleIds, callees |-> callees \cap ModuleIds,
        fan_in_count |-> Cardinality(callers), fan_out_count |-> Cardinality(callees)]

\* what self.neo4j_engine is to a query: no engine, an engine whose call raises,
\* an engine whose call returns
Neo4jEngines == {"none", "raises", "answers"}

\* the result a Neo4jQueryEngine returns; the queries hand it back as it is
Neo4jResult == [source |-> "neo4j"]

\* the handling of a raising engine that lets the exception reach the caller
Delegated_raising(neo4j_engine, enabled, in_memory) ==
    IF neo4j_engine # "none" /\ enabled
    THEN IF neo4j_engine = "answers" THEN Neo4jResult ELSE [source |-> "exception"]
    ELSE in_memory

\* get_dependencies, lines 236-246, and get_impacted_modules, lines 133-148:
\* the engine's result when the query uses an engine and its call returns,
\* the in-memory result when there is no engine or its call raises
Delegated(neo4j_engine, enabled, in_memory) ==
    IF neo4j_engine = "answers" /\ enabled THEN Neo4jResult ELSE in_memory

\* no query has been called
NoQuery ==
    [kind |-> "none", edges |-> {}, module_ids |-> << >>, d1 |-> 0, d2 |-> 0,
     r1 |-> [ids |-> {}, modules |-> {}], r2 |-> [ids |-> {}, modules |-> {}]]

-----------------------------------------------------------------------------
(* Planner: agents/planner.py. A file path is modelled by its ending *)

\* endings of the file paths an LLM answer or an impact result may name
Extensions == {"tsx", "component.ts", "py"}

\* generate_plan with _call_llm and _fallback_plan. llm: "none" (self.llm is
\* None), "raises" (llm.invoke or the parsing of its answer raises), "answers";
\* framework_type: what _call_llm derives from the PKG, 'unknown' if nothing;
\* structure_framework: _analyze_project_structure(...)['framework'], "none" for
\* None; llm_files: the files of the task in the LLM's answer; the result is
\* plan['tasks']
generate_plan(llm, framework_type, structure_framework, llm_files, impacted_files) ==
    LET validation_framework ==
            IF framework_type # "unknown" THEN framework_type ELSE structure_framework
        corrected_files ==
            [i \in DOMAIN llm_files |->
                IF validation_framework = "angular" /\ llm_files[i] = "tsx"
                THEN "ts" ELSE llm_files[i]]
        fallback_plan ==
            [i \in DOMAIN impacted_files |->
                [task_id |-> i, files |-> << impacted_files[i] >>]]
    IN IF llm = "answers"
       THEN << [task_id |-> 1, files |-> corrected_files] >>
       ELSE fallback_plan

-----------------------------------------------------------------------------
(* PKG builder: services/pkg_generator.py *)

\* the folders above each source file, outermost first
Folders ==
    ("a.py" :> << >>) @@ ("b.py" :> << "src" >>) @@ ("c.py" :> << "src", "db" >>)

\* PKGGenerator.generate_pkg, lines 355-440: the modules, symbols and features
\* that _build_modules, _build_symbols and _build_features build.
\* repo: per file, "absent", "undefined" (no language detected or no
\* definitions extracted), "plain" (definitions without functions) or "f"
\* (one function f). edges: the result of extract_relationships, which goes
\* into the PKG as it is returned
build_pkg_contents(repo, edges, include_features) ==
    LET modules == {path \in Paths : repo[path] \in {"plain", "f"}}
        prefixes == UNION {{SubSeq(Folders[path], 1, n) : n \in 1..Len(Folders[path])} :
                              path \in modules}
        under(prefix) ==
            {path \in modules :
                /\ Len(prefix) <= Len(Folders[path])
                /\ SubSeq(Folders[path], 1, Len(prefix)) = prefix}
    IN [modules |-> {ModId(path) : path \in modules},
        symbols |-> {[id |-> SymId(path, "f"), moduleId |-> ModId(path)] :
                        path \in {m \in modules : repo[m] = "f"}},
        edges |-> edges,
        features |-> IF include_features
                     THEN {[id |-> << "feat" >> \o prefix,
                            moduleIds |-> {ModId(path) : path \in under(prefix)}] :
                               prefix \in prefixes}
                     ELSE {}]

-----------------------------------------------------------------------------
(* HTTP routes: app.py and routes/pdf_routes.py *)

\* create_app: the URL rules in the order they are registered. The two rules
\* of the application object come first, the rules of pdf_bp follow when the
\* blueprint is registered
url_map ==
    << [rule |-> "/health", methods |-> {"GET"}, endpoint |-> "health_check"],
       [rule |-> "/ws/status", methods |-> {"GET"}, endpoint |-> "ws_status"],
       [rule |-> "/health", methods |-> {"GET"}, endpoint |-> "pdf.health_check"] >>

\* the response of the application to a request: the view of the first rule
\* that matches is called; among rules equal in path and methods that is the
\* one registered first. websocket_enabled: socketio is not None
full_dispatch_request(method, path, websocket_enabled) ==
    LET matching == {i \in DOMAIN url_map : url_map[i].rule = path}
        allowed == {i \in matching : method \in url_map[i].methods}
        first == CHOOSE i \in allowed : \A j \in allowed : i <= j
    IN IF matching = {} THEN [status_code |-> 404, json |-> [status |-> "none"]]
       ELSE IF allowed = {} THEN [status_code |-> 405, json |-> [status |-> "none"]]
       ELSE CASE url_map[first].endpoint = "health_check" ->
                    [status_code |-> 200,
                     json |-> [status |-> "healthy",
                               websocket_enabled |-> websocket_enabled]]
              [] url_map[first].endpoint = "ws_status" ->
                    [status_code |-> 200,
                     json |-> [status |-> "none",
                               websocket_enabled |-> websocket_enabled]]
              [] OTHER ->
                    [status_code |-> 200,
                     json |-> [status |-> "success", data |-> [status |-> "ok"],
                               message |-> "Service is healthy"]]

\* no function has been called
NoCall == [kind |-> "none"]

-----------------------------------------------------------------------------
(* Graph store: db/neo4j_db.py, the nodes and relationships of one project.
   The graph holds the Project node, the Module nodes linked to it by
   HAS_MODULE and the relationships between them; the symbol, endpoint and
   feature batches are written and read back as the module batch is *)

EdgeTypes == {"imports", "calls", "IMPORTS"}

\* str.upper() on the edge types
upper(type) ==
    CASE type = "imports" -> "IMPORTS"
      [] type = "calls" -> "CALLS"
      [] OTHER -> type

StoredModules == {ModId("a.py"), ModId("b.py")}

\* the modules and the edges of a PKG passed to store_pkg
PKGs ==
    [modules : SUBSET StoredModules,
     edges : {es \in SUBSET [from : StoredModules, to : StoredModules,
                             type : EdgeTypes] : Cardinality(es) <= 1}]

EmptyGraph == [project |-> FALSE, modules |-> {}, rels |-> {}]

\* MERGE (mod:Module {id}) and MERGE (proj)-[:HAS_MODULE]->(mod): nothing is deleted
store_modules_tx(graph, modules) ==
    [graph EXCEPT !.modules = @ \cup modules]

\* MATCH both ends among the stored nodes, MERGE (a)-[r:UPPER(type)]->(b)
store_edges_tx(graph, edges) ==
    [graph EXCEPT !.rels = @ \cup
        {[from |-> e.from, to |-> e.to, type |-> upper(e.type)] :
            e \in {d \in edges : d.from \in graph.modules /\ d.to \in graph.modules}}]

\* the write transactions of store_pkg in the order it runs them
Transactions == << "package", "project", "modules", "edges" >>

\* store_pkg(pkg) where the transaction named failing raises when it is run:
\* the transactions before it stay committed, store_pkg returns False
store_pkg_session(graph, pkg, failing) ==
    LET at(name) == CHOOSE i \in 1..Len(Transactions) : Transactions[i] = name
        run(name) == CASE name = "modules" -> pkg.modules # {}
                       [] name = "edges" -> pkg.edges # {}
                       [] OTHER -> TRUE
        raised == failing # "none" /\ run(failing)
        committed(name) == run(name) /\ (raised => at(name) < at(failing))
        g1 == IF committed("project") THEN [graph EXCEPT !.project = TRUE] ELSE graph
        g2 == IF committed("modules") THEN store_modules_tx(g1, pkg.modules) ELSE g1
        g3 == IF committed("edges") THEN store_edges_tx(g2, pkg.edges) ELSE g2
    IN  [graph |-> g3, ok |-> ~raised]

\* check_pkg_stored(project_id): the Project node exists
project_stored(graph, connected) == connected /\ graph.project

\* load_pkg_from_neo4j(project_id): the PKG read back, no PKG as the empty set
load_pkg_records(graph, connected) ==
    IF ~project_stored(graph, connected) THEN {}
    ELSE {[modules |-> graph.modules,
           edges |-> {r \in graph.rels : r.from \in graph.modules
                                         /\ r.to \in graph.modules}]}

-----------------------------------------------------------------------------
(* Specification of the server *)

Init ==
    /\ active_sessions = [k \in ClientIds |-> Absent]
    /\ conn = [c \in Sids |-> "new"]
    /\ creator = [k \in ClientIds |-> None]
    /\ tasks = [t \in TaskIds |-> FreeTask]
    /\ out = NoOut
    /\ requested = {}
    /\ next_task = 0
    /\ next_plan = 0
    /\ approval_required \in BOOLEAN
    /\ neo4j_pkg = [p \in Projects |-> NoPkg]
    /\ cloned = [p \in Projects |-> FALSE]
    /\ pkg_json = [p \in Projects |-> NoPkg]
    /\ git_sha = [p \in Projects |-> None]
    /\ clock = [p \in Projects |-> 0]
    /\ last_load = NoLoad
    /\ execution = NoExecution
    /\ query = NoQuery
    /\ call = NoCall

\* the inbound events of one socket
InboundOf(c) ==
       \/ Connect(c)
       \/ Disconnect(c)
       \/ \E empty \in BOOLEAN, url \in ChatUrls, sid_arg \in ChatIds(c) :
             ChatMessage(c, empty, url, sid_arg)
       \/ \E sid_arg \in DecisionIds, plan_arg \in PlanIds :
             \/ ApprovePlan(c, sid_arg, plan_arg)
             \/ RejectPlan(c, sid_arg, plan_arg)

Inbound == \E c \in Sids : InboundOf(c)

\* the handler invocations at a position
At(pc) == {t \in TaskIds : tasks[t].pc = pc}

\* ExtractIntent loads only on the read-only routes of a turn that has no PKG yet
IntentOutcomes(t, category) ==
    IF category \in {"informational_query", "diagram_request"} /\ ~HasPkg(tasks[t].pkg_data)
    THEN ServerOutcomes ELSE {NoOutcome}

Phase ==
    \/ \E t \in At("load"), oc \in ServerOutcomes : LoadRepo(t, oc)
    \/ \E t \in At("intent"), category \in Categories :
          \E ok \in BOOLEAN, answered \in BOOLEAN, oc \in IntentOutcomes(t, category) :
             ExtractIntent(t, ok, category, answered, oc)
    \/ \E t \in At("plan"), outcome \in {"query_failed", "impact_failed", "plan_failed", "ok"},
          human_approval \in BOOLEAN, impact_approval \in BOOLEAN :
             PlanChange(t, outcome, human_approval, impact_approval)
    \/ \E t \in At("edit"), outcome \in PlanOutcomes, n \in 1..MaxChanges : ExecutePlan(t, outcome, n)

Next == Inbound \/ Phase

\* the server with every socket active
Spec == Init /\ [][Next]_vars

\* the server with one client connected
NextClient == InboundOf("c1") \/ Phase

SpecClient == Init /\ [][NextClient]_vars

\* the server with one client connected, whose chat_message events name one of
\* two repositories and which may send one more approve_plan or reject_plan
\* after MaxTasks events
NextDecide ==
    \/ Connect("c1")
    \/ \E empty \in BOOLEAN, url \in RepoUrls, sid_arg \in ChatIds("c1") :
          ChatMessage("c1", empty, url, sid_arg)
    \/ \E sid_arg \in DecisionIds, plan_arg \in PlanIds :
          \/ ApprovePlanWithin(MaxTasks + 1, "c1", sid_arg, plan_arg)
          \/ RejectPlanWithin(MaxTasks + 1, "c1", sid_arg, plan_arg)
    \/ Phase

SpecDecide == Init /\ [][NextDecide]_vars

-----------------------------------------------------------------------------
(* Specification of the PKG loads: the loader and the generator called directly,
   on stores that change between the calls *)

\* AgentOrchestrator._ensure_repo_loaded(session_id, repo_url)
LoadCall(session_id, url, oc) ==
    LET r == ensure_repo_loaded(active_sessions, Env(oc.neo_up), session_id, url, oc)
    IN
    /\ last_load.n < MaxCalls
    /\ active_sessions' = r.sessions
    /\ SetEnv(r.env)
    /\ last_load' = [NoLoad EXCEPT !.n = last_load.n + 1, !.kind = "ensure",
                                   !.session_id = session_id, !.url = url,
                                   !.project = ProjectIdOfUrl(url),
                                   !.source = r.source, !.pkg = r.pkg_data,
                                   !.db_up = oc.neo_up,
                                   !.db_ok = oc.neo_up /\ (oc.neo_load1 \/ oc.neo_load2)]
    /\ UNCHANGED << conn, creator, tasks, out, requested, next_task, next_plan,
                    approval_required, execution, query, call >>

\* parser_service.generate_pkg(repo_path, use_cache) on an existing checkout
\* (routes/pdf_routes.py, line 350)
GenerateCall(project, use_cache, neo4j_up, genOk, storeOk) ==
    LET g == generate_pkg(Env(neo4j_up), FolderPath(project), use_cache, genOk, storeOk)
    IN
    /\ last_load.n < MaxCalls
    /\ cloned[project]
    /\ SetEnv(g.env)
    /\ last_load' = [NoLoad EXCEPT !.n = last_load.n + 1, !.kind = "generate",
                                   !.project = project, !.pkg = g.pkg,
                                   !.raised = g.raised, !.invoked = g.invoked,
                                   !.use_cache = use_cache]
    /\ UNCHANGED << active_sessions, conn, creator, tasks, out, requested, next_task,
                    next_plan, approval_required, execution, query, call >>

\* HEAD of a checkout moves, or git stops answering (get_git_sha returns None)
Checkout(project, sha) ==
    /\ cloned[project]
    /\ git_sha[project] # sha
    /\ git_sha' = [git_sha EXCEPT ![project] = sha]
    /\ UNCHANGED << active_sessions, conn, creator, tasks, out, requested, next_task,
                    next_plan, approval_required, neo4j_pkg, cloned, pkg_json, clock,
                    last_load, execution, query, call >>

\* a write of pkg.json is cut short: the file no longer parses
\* (PKGGenerator.generate_pkg writes it in place)
Truncate(project) ==
    /\ HasPkg(pkg_json[project])
    /\ pkg_json[project] # Corrupt
    /\ pkg_json' = [pkg_json EXCEPT ![project] = Corrupt]
    /\ UNCHANGED << active_sessions, conn, creator, tasks, out, requested, next_task,
                    next_plan, approval_required, neo4j_pkg, cloned, git_sha, clock,
                    last_load, execution, query, call >>

NextLoad ==
    \/ \E session_id \in UuidPool, oc \in Outcomes : LoadCall(session_id, UrlApp, oc)
    \/ \E project \in Projects, use_cache \in BOOLEAN, neo4j_up \in BOOLEAN,
          genOk \in BOOLEAN :
          GenerateCall(project, use_cache, neo4j_up, genOk, neo4j_up)
    \/ \E project \in Projects, sha \in Shas \cup {None} : Checkout(project, sha)
    \/ \E project \in Projects : Truncate(project)

SpecLoad == Init /\ [][NextLoad]_vars

-----------------------------------------------------------------------------
(* Specification of the clone: the uncached load of a turn with its blocking
   subprocess calls (git --version, git clone) as steps of their own, so that
   the loads of concurrent handlers interleave at them *)

\* _ensure_repo_loaded, lines 357-392: _load_pkg on the checkout and the session store
load_cloned(S, E, session_id, repo_url, oc) ==
    LET folder_path == FolderPath(ProjectIdOfUrl(repo_url))
        ev4 == << StreamUpdate("status", "pkg_generation", NoPlan) >>
        l == load_pkg(E, folder_path, PathName(folder_path), oc)
    IN IF ~HasPkg(l.pkg) THEN LoadFailed(S, l.env, ev4)
       ELSE
       LET S1 == [EnsureEntry(S, session_id) EXCEPT
                     ![session_id].repo_url = repo_url,
                     ![session_id].repo_path = folder_path,
                     ![session_id].pkg_data = l.pkg]
       IN [repo_path |-> folder_path, pkg_data |-> l.pkg, sessions |-> S1,
           env |-> l.env, source |-> l.source,
           events |-> ev4 \o << StreamUpdate("status", "pkg_generation", NoPlan) >>]

\* _ensure_repo_loaded, lines 262-333: graph DB lookup and os.path.exists(folder_path).
\* A load that needs no clone runs to its end; otherwise the handler goes on to
\* subprocess.run([git, "--version"])
RepoCheck(t, oc) ==
    LET me == tasks[t]
        E == Env(oc.neo_up)
        project_id == ProjectIdOfUrl(me.repo_url)
        stored == check_pkg_stored(E, project_id)
        fromDb == load_pkg_from_neo4j(E, project_id, oc.neo_load1)
        ev1 == IF stored THEN << StreamUpdate("status", "pkg_loading", NoPlan) >> ELSE << >>
    IN
    /\ me.pc = "load"
    /\ IF (stored /\ HasPkg(fromDb)) \/ cloned[project_id]
       THEN LoadRepo(t, oc)
       ELSE /\ Step(t, [me EXCEPT !.pc = "git"],
                    ev1 \o << StreamUpdate("status", "repo_loading", NoPlan),
                              StreamUpdate("log", "repo_loading", NoPlan) >>)
            /\ UNCHANGED << active_sessions, conn, creator, next_task, next_plan,
                            approval_required, envVars, last_load, execution, query,
                            call >>

\* _ensure_repo_loaded, line 348: subprocess.run([git, "clone", repo_url, folder_path])
\* is started.  git creates the directory, or refuses one that is there already
GitSpawn(t) ==
    LET me == tasks[t]
        repo_name == ProjectIdOfUrl(me.repo_url)
    IN
    /\ me.pc = "git"
    /\ IF cloned[repo_name]
       THEN /\ Step(t, [me EXCEPT !.pc = "clone_refused"], << >>)
            /\ UNCHANGED cloned
       ELSE /\ Step(t, [me EXCEPT !.pc = "clone"], << >>)
            /\ cloned' = [cloned EXCEPT ![repo_name] = TRUE]
    /\ UNCHANGED << active_sessions, conn, creator, next_task, next_plan,
                    approval_required, neo4j_pkg, pkg_json, git_sha, clock, last_load, execution, query,
                    call >>

\* the handlers inside subprocess.run([git, "clone", ...]) for a folder
Cloning(repo_name) ==
    {t \in TaskIds : /\ tasks[t].pc \in {"clone", "clone_refused"}
                     /\ ProjectIdOfUrl(tasks[t].repo_url) = repo_name}

\* _ensure_repo_loaded, lines 348-392, and process_user_request, lines 64-89:
\* git clone returns; on success _load_pkg runs on the checkout
GitExit(t, oc) ==
    LET me == tasks[t]
        repo_name == ProjectIdOfUrl(me.repo_url)
        E == Env(oc.neo_up)
        E1 == [E EXCEPT !.git_sha[repo_name] = RemoteHead(repo_name)]
        r == load_cloned(active_sessions, E1, me.session_id, me.repo_url, oc)
    IN
    /\ me.pc \in {"clone", "clone_refused"}
    /\ IF me.pc = "clone" /\ oc.clone
       THEN /\ active_sessions' = r.sessions
            /\ creator' = Created(active_sessions, r.sessions, me.session_id, me.sid)
            /\ SetEnv(r.env)
            /\ IF HasPkg(r.pkg_data)
               THEN Step(t, [me EXCEPT !.pc = "intent", !.repo_path = r.repo_path,
                                       !.pkg_data = r.pkg_data],
                         r.events \o << StreamUpdate("status", "intent_extraction", NoPlan) >>)
               ELSE Step(t, [me EXCEPT !.pc = "done"],
                         r.events \o << StreamUpdate("error", "repo_loading", NoPlan) >>)
       ELSE /\ Step(t, [me EXCEPT !.pc = "done"],
                    << StreamUpdate("error", "repo_loading", NoPlan) >>)
            /\ cloned' = IF me.pc = "clone" THEN [cloned EXCEPT ![repo_name] = FALSE]
                         ELSE cloned
            /\ UNCHANGED << active_sessions, creator, neo4j_pkg, pkg_json, git_sha, clock >>
    /\ UNCHANGED << conn, next_task, next_plan, approval_required, last_load, execution, query,
                    call >>

NextClone ==
    \/ \E c \in Sids : Connect(c)
    \/ \E c \in Sids, empty \in BOOLEAN, url \in ChatUrls :
          \E sid_arg \in ChatIds(c) : ChatMessage(c, empty, url, sid_arg)
    \/ \E t \in At("load"), oc \in ServerOutcomes : RepoCheck(t, oc)
    \/ \E t \in At("git") : GitSpawn(t)
    \/ \E t \in At("clone") \cup At("clone_refused"), oc \in ServerOutcomes : GitExit(t, oc)

SpecClone == Init /\ [][NextClone]_vars

-----------------------------------------------------------------------------
(* Specification of the file cache: generate_pkg with the write of pkg.json
   (open(output_path, 'w'), then json.dump) as two steps, called by concurrent
   workers while sessions load the same checkout *)

\* parser_service.generate_pkg, lines 96-131, and PKGGenerator.generate_pkg up to
\* open(output_path, 'w'): the cache check reads pkg.json; on a miss the generator
\* builds the document and opens the file for writing, which empties it.
\* last_load.pkg: the document the cache check has read and accepted
GenerateBegin(project, use_cache, genOk) ==
    LET t == next_task + 1
        E == Env(FALSE)
        repo_path == FolderPath(project)
        file == pkg_json[project]
        readable == use_cache /\ HasPkg(file) /\ file # Corrupt
        hit == readable /\ CacheValid(file.gitSha, get_git_sha(E, repo_path))
        pkg == [id |-> PathName(repo_path), rootPath |-> repo_path,
                gitSha |-> get_git_sha(E, repo_path),
                generatedAt |-> clock[project] + 1]
    IN
    /\ last_load.n < MaxCalls
    /\ next_task < MaxTasks
    /\ cloned[project]
    /\ next_task' = t
    /\ last_load' = [NoLoad EXCEPT !.n = last_load.n + 1, !.kind = "generate",
                                   !.project = project, !.use_cache = use_cache,
                                   !.pkg = IF hit THEN file ELSE NoPkg,
                                   !.raised = ~hit /\ ~genOk,
                                   !.invoked = ~hit]
    /\ IF hit \/ ~genOk
       THEN /\ tasks' = [tasks EXCEPT ![t] = DoneTask]
            /\ UNCHANGED << pkg_json, clock >>
       ELSE /\ tasks' = [tasks EXCEPT ![t] =
                           [FreeTask EXCEPT !.kind = "generate", !.pc = "writing",
                                            !.repo_path = repo_path, !.pkg_data = pkg]]
            /\ pkg_json' = [pkg_json EXCEPT ![project] = Corrupt]
            /\ clock' = [clock EXCEPT ![project] = @ + 1]
    /\ UNCHANGED << active_sessions, conn, creator, out, requested, next_plan,
                    approval_required, neo4j_pkg, cloned, git_sha, execution, query,
                    call >>

\* PKGGenerator.generate_pkg, lines 446-451: json.dump(pkg, f) runs to its end
\* (dumped) or raises part-way, then store_pkg
GenerateEnd(t, dumped, neo4j_up, storeOk) ==
    LET me == tasks[t]
        project == PathName(me.repo_path)
        E1 == [Env(neo4j_up) EXCEPT !.pkg_json[project] = me.pkg_data]
    IN
    /\ me.pc = "writing"
    /\ tasks' = [tasks EXCEPT ![t] = DoneTask]
    /\ IF dumped
       THEN SetEnv(store_pkg(E1, me.pkg_data, storeOk))
       ELSE UNCHANGED envVars
    /\ UNCHANGED << active_sessions, conn, creator, out, requested, next_task,
                    next_plan, approval_required, last_load, execution, query, call >>

NextWrite ==
    \/ \E session_id \in UuidPool, oc \in ServerOutcomes : LoadCall(session_id, UrlApp, oc)
    \/ \E project \in Projects, use_cache \in BOOLEAN, genOk \in BOOLEAN :
          GenerateBegin(project, use_cache, genOk)
    \/ \E t \in At("writing"), dumped \in BOOLEAN, neo4j_up \in BOOLEAN :
          GenerateEnd(t, dumped, neo4j_up, neo4j_up)
    \/ \E project \in Projects, sha \in Shas \cup {None} : Checkout(project, sha)

SpecWrite == Init /\ [][NextWrite]_vars

-----------------------------------------------------------------------------
(* Specification of the plan execution: _execute_plan called on a plan and a
   checkout, one step per blocking call (git, LLM edit of one file, test
   subprocess, verifier, code-host API) *)

\* the events a step of _execute_plan streams
Streamed(plan_id, events) ==
    out' = [NoOut EXCEPT !.kind = "execute", !.plan_id = plan_id, !.events = events]

\* _execute_plan, lines 678-696: status event, CodeEditExecutor(repo_path),
\* create_branch.  branchOk = FALSE: git checkout raises GitCommandError
ExecuteBegin(plan_id, plan, tree, branchOk) ==
    /\ execution.pc = "idle"
    /\ IF branchOk
       THEN /\ execution' = [execution EXCEPT
                                !.pc = "editing", !.plan_id = plan_id, !.plan = plan,
                                !.at = 1, !.tree = tree,
                                !.ops = << "checkout_branch" >>]
            /\ Streamed(plan_id, << StreamUpdate("status", "editing", plan_id),
                                    StreamUpdate("log", "editing", plan_id) >>)
       ELSE /\ execution' = [execution EXCEPT !.pc = "done", !.plan_id = plan_id]
            /\ Streamed(plan_id, << StreamUpdate("status", "editing", plan_id),
                                    StreamUpdate("error", "editing", plan_id) >>)
    /\ UNCHANGED << active_sessions, conn, creator, tasks, requested, next_task,
                    next_plan, approval_required, envVars, last_load, query, call >>

\* CodeEditExecutor.apply_edits: the next file of the plan
ApplyEdit(llm, validation) ==
    LET r == apply_edit(execution.tree, execution.changes, execution.errors,
                        execution.plan[execution.at], llm, validation)
    IN
    /\ execution.pc = "editing"
    /\ execution.at <= Len(execution.plan)
    /\ execution' = [execution EXCEPT !.at = @ + 1, !.tree = r.tree,
                                      !.changes = r.changes, !.errors = r.errors]
    /\ Streamed(execution.plan_id, << >>)
    /\ UNCHANGED << active_sessions, conn, creator, tasks, requested, next_task,
                    next_plan, approval_required, envVars, last_load, query, call >>

\* _execute_plan, lines 700-735: apply_edits has returned; one code_change event
\* per change, the overall diff, then the testing phase is entered.
\* diffOk = FALSE: generate_diff raises
StreamChanges(diffOk) ==
    LET p == execution.plan_id
        perChange == [i \in 1..Len(execution.changes) |->
                         StreamUpdate("code_change", "editing", p)]
    IN
    /\ execution.pc = "editing"
    /\ execution.at > Len(execution.plan)
    /\ IF diffOk
       THEN /\ execution' = [execution EXCEPT !.pc = "testing"]
            /\ Streamed(p, CodeChanges(Len(execution.changes), p)
                             \o << StreamUpdate("status", "testing", p) >>)
       ELSE /\ execution' = [execution EXCEPT !.pc = "done"]
            /\ Streamed(p, perChange \o << StreamUpdate("error", "editing", p) >>)
    /\ UNCHANGED << active_sessions, conn, creator, tasks, requested, next_task,
                    next_plan, approval_required, envVars, last_load, query, call >>

\* _execute_plan, lines 738-765: TestRunner(repo_path).run_tests(), test_result
\* event, then the verification phase is entered.
\* constructed = FALSE: the runner cannot be imported or constructed;
\* language: what TestRunner._detect_language finds in the checkout
RunTests(constructed, language, outcome) ==
    LET p == execution.plan_id
        r == run_tests(language, outcome)
    IN
    /\ execution.pc = "testing"
    /\ IF constructed /\ ~r.raised
       THEN /\ execution' = [execution EXCEPT
                                !.pc = "verifying", !.test_results = r,
                                !.subprocess = IF language = "unknown" THEN "not_run"
                                               ELSE outcome]
            /\ Streamed(p, << StreamUpdate("test_result", "testing", p),
                              StreamUpdate("status", "verification", p) >>)
       ELSE /\ execution' = [execution EXCEPT
                                !.pc = "done",
                                !.subprocess = IF constructed /\ language # "unknown"
                                               THEN outcome ELSE "not_run"]
            /\ Streamed(p, << StreamUpdate("error", "testing", p) >>)
    /\ UNCHANGED << active_sessions, conn, creator, tasks, requested, next_task,
                    next_plan, approval_required, envVars, last_load, query, call >>

\* _execute_plan, lines 768-797 and 826-835: Verifier().verify_acceptance;
\* verdict: ready for a PR, not ready, or the verifier raises
Verify(verdict) ==
    LET p == execution.plan_id
    IN
    /\ execution.pc = "verifying"
    /\ CASE verdict = "ready" ->
              /\ execution' = [execution EXCEPT !.pc = "pr"]
              /\ Streamed(p, << StreamUpdate("log", "verification", p),
                                StreamUpdate("status", "pr_creation", p) >>)
         [] verdict = "not_ready" ->
              /\ execution' = [execution EXCEPT !.pc = "done"]
              /\ Streamed(p, << StreamUpdate("log", "verification", p),
                                StreamUpdate("summary", "verification", p) >>)
         [] OTHER ->
              /\ execution' = [execution EXCEPT !.pc = "done"]
              /\ Streamed(p, << StreamUpdate("error", "verification", p) >>)
    /\ UNCHANGED << active_sessions, conn, creator, tasks, requested, next_task,
                    next_plan, approval_required, envVars, last_load, query, call >>

\* _execute_plan, lines 799-825: PRCreator(repo_path).create_pr and the summary.
\* described = FALSE: generate_pr_description raises, before create_pr is entered;
\* github: GITHUB_TOKEN is configured (PRCreator._init_github)
CreatePR(described, github, api) ==
    LET p == execution.plan_id
        r == create_pr(github, api)
    IN
    /\ execution.pc = "pr"
    /\ IF described
       THEN /\ execution' = [execution EXCEPT
                                !.pc = "done",
                                !.api = IF r.called THEN api ELSE "not_called",
                                !.ops = IF r.called THEN Append(@, "create_pull") ELSE @]
            /\ Streamed(p, << StreamUpdate("summary", "pr_creation", p) >>)
       ELSE /\ execution' = [execution EXCEPT !.pc = "done"]
            /\ Streamed(p, << StreamUpdate("error", "pr_creation", p) >>)
    /\ UNCHANGED << active_sessions, conn, creator, tasks, requested, next_task,
                    next_plan, approval_required, envVars, last_load, query, call >>

NextExec ==
    \/ \E plan \in ExecPlans, tree \in [Files -> {"absent", "orig"}], branchOk \in BOOLEAN :
          ExecuteBegin(1, plan, tree, branchOk)
    \/ \E llm \in LlmResults, validation \in Validations : ApplyEdit(llm, validation)
    \/ \E diffOk \in BOOLEAN : StreamChanges(diffOk)
    \/ \E constructed \in BOOLEAN, language \in Languages, outcome \in TestOutcomes :
          RunTests(constructed, language, outcome)
    \/ \E verdict \in {"ready", "not_ready", "raises"} : Verify(verdict)
    \/ \E described \in BOOLEAN, github \in BOOLEAN, api \in ApiOutcomes :
          CreatePR(described, github, api)

\* _execute_plan does not read AGENT_APPROVAL_REQUIRED
InitExec == Init /\ approval_required

SpecExec == InitExec /\ [][NextExec]_vars

-----------------------------------------------------------------------------
(* Specification of the PKG queries: a query engine built on a PKG and
   called with two depths *)

\* pkg['edges']
EdgeSets ==
    {es \in SUBSET {e \in [from : NodeIds, to : NodeIds] : e.from # e.to} :
        Cardinality(es) <= MaxEdges}

\* the seed lists of a query: one module, or two different ones
SeedLists ==
    {<< m >> : m \in ModuleIds}
        \cup {s \in {<< m, n >> : m \in ModuleIds, n \in ModuleIds} : s[1] # s[2]}

\* iteration orders of the sets of module ids: one order and its reverse
Forward ==
    (ModId("a.py") :> 1) @@ (ModId("b.py") :> 2) @@ (ModId("c.py") :> 3)
        @@ (<< "mod", "mod" >> :> 4)

IterationOrders == {Forward, [m \in DOMAIN Forward |-> 5 - Forward[m]]}

\* PKGQueryEngine(pkg_data).get_impacted_modules(module_ids, d1) and (module_ids, d2)
ImpactedCall(edges, module_ids, d1, d2, rank) ==
    /\ query.kind = "none"
    /\ query' = [kind |-> "impacted", edges |-> edges, module_ids |-> module_ids,
                 d1 |-> d1, d2 |-> d2,
                 r1 |-> get_impacted_modules(edges, module_ids, d1, rank),
                 r2 |-> get_impacted_modules(edges, module_ids, d2, rank)]
    /\ UNCHANGED << active_sessions, conn, creator, tasks, out, requested, next_task,
                    next_plan, approval_required, envVars, last_load, execution, call >>

\* pkg['edges'] with the edges from a module or symbol to itself
LoopEdgeSets ==
    {es \in SUBSET [from : NodeIds, to : NodeIds] : Cardinality(es) <= MaxEdges}

\* PKGQueryEngine(pkg_data, neo4j_engine).get_dependencies(a) and (b)
DependenciesCall(edges, a, b, neo4j_engine) ==
    /\ query.kind = "none"
    /\ query' = [kind |-> "dependencies", edges |-> edges, module_ids |-> << a, b >>,
                 neo4j_engine |-> neo4j_engine,
                 r1 |-> Delegated(neo4j_engine, TRUE, get_dependencies(edges, a)),
                 r2 |-> Delegated(neo4j_engine, TRUE, get_dependencies(edges, b))]
    /\ UNCHANGED << active_sessions, conn, creator, tasks, out, requested, next_task,
                    next_plan, approval_required, envVars, last_load, execution, call >>

\* PKGQueryEngine(pkg_data, neo4j_engine).get_impacted_modules([module_id], depth)
\* on a PKG whose project id is project_id
DelegatedImpactCall(edges, module_id, depth, project_id, neo4j_engine) ==
    /\ query.kind = "none"
    /\ query' = [kind |-> "delegated_impact", edges |-> edges,
                 module_ids |-> << module_id >>, d1 |-> depth,
                 project_id |-> project_id, neo4j_engine |-> neo4j_engine,
                 r1 |-> Delegated(neo4j_engine, project_id # "",
                                  get_impacted_modules(edges, << module_id >>, depth,
                                                       Forward))]
    /\ UNCHANGED << active_sessions, conn, creator, tasks, out, requested, next_task,
                    next_plan, approval_required, envVars, last_load, execution, call >>

\* strings handed to _extract_module_id: the module and symbol ids of the PKG,
\* an endpoint id, a feature id, and a symbol id cut short
IdStrings ==
    ModuleIds \cup {SymId(path, "f") : path \in Paths}
        \cup {<< "ep", "GET", "/x" >>, << "feat", "src" >>, << "sym", "f" >>}

\* PKGQueryEngine(pkg_data)._extract_module_id(id_string)
ExtractCall(id_string) ==
    /\ query.kind = "none"
    /\ query' = [kind |-> "extract", id_string |-> id_string,
                 r1 |-> extract_module_id(id_string)]
    /\ UNCHANGED << active_sessions, conn, creator, tasks, out, requested, next_task,
                    next_plan, approval_required, envVars, last_load, execution, call >>

NextQuery ==
    /\ query.kind = "none"
    /\ \/ \E edges \in EdgeSets, module_ids \in SeedLists, d2 \in 0..MaxDepth, rank \in IterationOrders :
             \E d1 \in 0..d2 : ImpactedCall(edges, module_ids, d1, d2, rank)
       \/ \E edges \in LoopEdgeSets, a \in ModuleIds, b \in ModuleIds, neo4j_engine \in Neo4jEngines :
             DependenciesCall(edges, a, b, neo4j_engine)
       \/ \E edges \in EdgeSets, module_id \in ModuleIds, depth \in 0..MaxDepth,
             project_id \in {"", "app"}, neo4j_engine \in Neo4jEngines :
             DelegatedImpactCall(edges, module_id, depth, project_id, neo4j_engine)
       \/ \E id_string \in IdStrings : ExtractCall(id_string)

\* the queries do not read AGENT_APPROVAL_REQUIRED
InitQuery == Init /\ approval_required

SpecQuery == InitQuery /\ [][NextQuery]_vars

-----------------------------------------------------------------------------
(* Specification of direct calls: the planner *)

\* Planner().generate_plan(intent, impact_result, constraints, pkg_data)
PlanCall(llm, framework_type, structure_framework, llm_files, impacted_files) ==
    /\ call.kind = "none"
    /\ call' = [kind |-> "plan", llm |-> llm,
                framework |-> IF framework_type # "unknown" THEN framework_type
                              ELSE structure_framework,
                llm_files |-> llm_files, impacted_files |-> impacted_files,
                tasks |-> generate_plan(llm, framework_type, structure_framework,
                                        llm_files, impacted_files)]
    /\ UNCHANGED << active_sessions, conn, creator, tasks, out, requested, next_task,
                    next_plan, approval_required, envVars, last_load, execution,
                    query >>

\* PKGGenerator(repo_path, include_features=...).generate_pkg()
BuildCall(repo, edges, include_features) ==
    /\ call.kind = "none"
    /\ call' = [kind |-> "build", repo |-> repo,
                pkg |-> build_pkg_contents(repo, edges, include_features)]
    /\ UNCHANGED << active_sessions, conn, creator, tasks, out, requested, next_task,
                    next_plan, approval_required, envVars, last_load, execution,
                    query >>

\* create_app().test_client().open(path, method=method)
RequestCall(method, path, websocket_enabled) ==
    /\ call.kind = "none"
    /\ call' = [kind |-> "request", method |-> method, path |-> path,
                response |-> full_dispatch_request(method, path, websocket_enabled)]
    /\ UNCHANGED << active_sessions, conn, creator, tasks, out, requested, next_task,
                    next_plan, approval_required, envVars, last_load, execution,
                    query >>

\* store_pkg(pkg) on the graph the earlier calls left
StorePkgCall(pkg, failing) ==
    /\ call.kind \in {"none", "store", "load"}
    /\ (IF call.kind = "none" THEN 0 ELSE call.stores) < MaxStores
    /\ LET graph == IF call.kind = "none" THEN EmptyGraph ELSE call.graph
           r == store_pkg_session(graph, pkg, failing)
       IN  call' = [kind |-> "store", graph |-> r.graph, pkg |-> pkg,
                    stores |-> (IF call.kind = "none" THEN 0 ELSE call.stores) + 1,
                    ok |-> r.ok]
    /\ UNCHANGED << active_sessions, conn, creator, tasks, out, requested, next_task,
                    next_plan, approval_required, envVars, last_load, execution,
                    query >>

\* check_pkg_stored(project_id) and load_pkg_from_neo4j(project_id) after a store
LoadPkgCall(connected) ==
    /\ call.kind = "store"
    /\ call' = [kind |-> "load", graph |-> call.graph, pkg |-> call.pkg,
                stores |-> call.stores, ok |-> call.ok,
                stored |-> project_stored(call.graph, connected),
                loaded |-> load_pkg_records(call.graph, connected)]
    /\ UNCHANGED << active_sessions, conn, creator, tasks, out, requested, next_task,
                    next_plan, approval_required, envVars, last_load, execution,
                    query >>

NextCall ==
    \/ \E llm \in {"none", "raises", "answers"},
          framework_type \in {"angular", "react", "flask", "unknown"},
          structure_framework \in {"none", "angular", "flask"},
          llm_files \in UNION {[1..n -> Extensions] : n \in 1..MaxFiles},
          impacted_files \in UNION {[1..n -> Extensions] : n \in 1..MaxFiles} :
          PlanCall(llm, framework_type, structure_framework, llm_files,
                   impacted_files)
    \/ \E repo \in [Paths -> {"absent", "undefined", "plain", "f"}],
          edges \in {es \in LoopEdgeSets : Cardinality(es) <= 1},
          include_features \in BOOLEAN :
          BuildCall(repo, edges, include_features)
    \/ \E method \in {"GET", "POST"}, path \in {"/health", "/ws/status", "/other"},
          websocket_enabled \in BOOLEAN :
          RequestCall(method, path, websocket_enabled)
    \/ \E pkg \in PKGs, failing \in {"none"} \cup {Transactions[i] : i \in 1..Len(Transactions)} :
          StorePkgCall(pkg, failing)
    \/ \E connected \in BOOLEAN : LoadPkgCall(connected)

SpecCall == Init /\ [][NextCall]_vars

-----------------------------------------------------------------------------
(* Properties of the chat workflow *)

\* the step dispatches an inbound event of the given kind to a new handler
Dispatched(kind) == next_task' = next_task + 1 /\ out'.kind = kind

\* the events of the latest step that have the given type
EventsOfType(o, type) == {i \in DOMAIN o.events : o.events[i].type = type}

\* the entry named by the payload of the latest inbound event, as it was before
Named(session_id) ==
    IF session_id \in ClientIds THEN active_sessions[session_id] ELSE Absent

\* C1: with approval required, a code_change event is emitted only by the handler
\* of an approve_plan whose plan_id is the plan the event belongs to, and only for
\* a plan whose approval_request has been emitted before
C1_ApprovalGate ==
    approval_required =>
        \A i \in EventsOfType(out, "code_change") :
            /\ out.kind = "approve"
            /\ out.plan_arg = out.events[i].plan_id
            /\ out.events[i].plan_id \in requested

C1_Witness ==
    /\ approval_required
    /\ out.kind = "approve"
    /\ EventsOfType(out, "code_change") # {}

\* C2: an approve_plan naming the plan that its session holds awaiting approval
\* (requested, stored and pending) enters the editing phase with the stored plan
C2_ApproveResumes ==
    [][ (/\ Dispatched("approve")
         /\ Named(out'.session_id).present
         /\ Named(out'.session_id).pending_approval # NoPlan
         /\ Named(out'.session_id).pending_approval = out'.plan_arg
         /\ Named(out'.session_id).current_plan = out'.plan_arg
         /\ out'.plan_arg \in requested)
        => (/\ tasks'[out'.t].pc = "edit"
            /\ tasks'[out'.t].plan_id = out'.plan_arg) ]_vars

\* C3: a reject_plan for a session awaiting approval leaves the session with no
\* plan awaiting approval, and a status message is sent
C3_RejectReturnsToIdle ==
    [][ (/\ Dispatched("reject")
         /\ Named(out'.session_id).present
         /\ Named(out'.session_id).pending_approval # NoPlan
         /\ Named(out'.session_id).pending_approval = out'.plan_arg
         /\ out'.plan_arg \in requested)
        => (/\ active_sessions'[out'.session_id].pending_approval = NoPlan
            /\ EventsOfType(out', "status") # {}) ]_vars

\* C4: an approve_plan or reject_plan naming a session id with no registry entry
\* is answered with an error event
C4_UnknownSessionIsError ==
    [][ (/\ Dispatched("approve") \/ Dispatched("reject")
         /\ out'.session_id # None
         /\ ~Named(out'.session_id).present)
        => \E i \in DOMAIN out'.events : IsError(out'.events[i]) ]_vars

\* C5: no two handlers are in progress for the same session at the same time
C5_OnePhaseAtATime ==
    \A t1, t2 \in TaskIds :
        (t1 # t2 /\ Running(t1) /\ Running(t2))
            => tasks[t1].session_id # tasks[t2].session_id

\* the fields of an entry that the workflow writes
Written(entry) ==
    << entry.present, entry.repo_url, entry.repo_path, entry.pkg_data,
       entry.current_plan, entry.pending_approval >>

\* C6: a step of a handler serving one socket leaves the entries of the other
\* sockets' sessions as they were
C6_OnlyOwnerMutates ==
    [][ \A k \in ClientIds :
          (/\ out'.t # 0
           /\ active_sessions[k].present
           /\ active_sessions[k].sid # None
           /\ active_sessions[k].sid # out'.sid)
          => Written(active_sessions'[k]) = Written(active_sessions[k]) ]_vars

\* the phase positions of the events of a step, in order, without the events
\* that belong to no phase
RECURSIVE Ranks(_)
Ranks(events) ==
    IF events = << >> THEN << >>
    ELSE LET r == PhaseRank(Head(events).stage)
         IN (IF r = 0 THEN << >> ELSE << r >>) \o Ranks(Tail(events))

NonDecreasing(ranks) ==
    \A i, j \in DOMAIN ranks : i < j => ranks[i] <= ranks[j]

\* C7: within one turn the phase positions of the streamed events never go back
C7_PhaseOrder ==
    [][ out'.t # 0
        => NonDecreasing(<< tasks[out'.t].high >> \o Ranks(out'.events)) ]_vars

\* C8: no entry created by the handlers of a socket remains once that socket's
\* disconnect has been handled
C8_EvictedOnDisconnect ==
    \A k \in ClientIds :
        (creator[k] # None /\ conn[creator[k]] = "closed") => ~active_sessions[k].present

-----------------------------------------------------------------------------
(* Properties of the PKG loads *)

\* the step is a direct call of the given kind
Called(kind) == last_load'.n = last_load.n + 1 /\ last_load'.kind = kind

\* pkg.json of the project parses
Readable(project) == HasPkg(pkg_json[project]) /\ pkg_json[project] # Corrupt

\* C9: a load takes the PKG from the first of session cache, graph DB (when
\* check_pkg_stored holds), valid file cache, regeneration that has it; a later
\* source is used only when every earlier one misses
C9_LoadOrder ==
    [][ Called("ensure") =>
        LET l == last_load'
            session == SessionGet(active_sessions, l.session_id)
            sessionHit == session.repo_url = l.url /\ HasPkg(session.pkg_data)
            stored == l.db_up /\ HasPkg(neo4j_pkg[l.project])
            dbHit == stored /\ l.db_ok
            fileValid == /\ cloned[l.project]
                         /\ Readable(l.project)
                         /\ pkg_json[l.project].gitSha # None
                         /\ pkg_json[l.project].gitSha = git_sha[l.project]
        IN /\ sessionHit => l.source = "session" /\ l.pkg = session.pkg_data
           /\ l.source = "session" => sessionHit
           /\ l.source = "neo4j" =>
                 ~sessionHit /\ stored /\ l.pkg = neo4j_pkg[l.project]
           /\ l.source = "file" =>
                 ~sessionHit /\ ~dbHit /\ fileValid /\ l.pkg = pkg_json[l.project]
           /\ l.source = "regenerate" => ~sessionHit /\ ~dbHit /\ ~fileValid ]_vars

C9_Witness ==
    /\ last_load.kind = "ensure"
    /\ last_load.source = "file"
    /\ HasPkg(neo4j_pkg[last_load.project])

\* C10: generate_pkg with caching returns pkg.json as it is, without running the
\* generator, when its gitSha is the current SHA; it runs the generator when
\* the two differ and when either is missing
C10_CacheBySha ==
    [][ (Called("generate") /\ last_load'.use_cache /\ Readable(last_load'.project)) =>
        LET l == last_load'
            file == pkg_json[l.project]
            S == git_sha[l.project]
        IN /\ (S # None /\ file.gitSha = S) =>
                 /\ ~l.invoked
                 /\ l.pkg = file
                 /\ pkg_json' = pkg_json
                 /\ clock' = clock
           /\ (S = None \/ file.gitSha = None \/ file.gitSha # S) =>
                 /\ l.invoked
                 /\ ~l.raised =>
                       /\ l.pkg.gitSha = S
                       /\ l.pkg.generatedAt = clock[l.project] + 1
                       /\ pkg_json'[l.project] = l.pkg ]_vars

C10_Witness ==
    /\ last_load.kind = "generate"
    /\ last_load.use_cache
    /\ ~last_load.invoked
    /\ last_load.pkg = pkg_json[last_load.project]

\* C11: a load that hands the workflow a PKG of a checkout whose HEAD git can
\* name hands over a PKG generated at that HEAD (pkg.gitSha is the current SHA)
C11_RegeneratedOnShaChange ==
    [][ (/\ Called("ensure")
         /\ HasPkg(last_load'.pkg)
         /\ cloned'[last_load'.project]
         /\ git_sha'[last_load'.project] # None)
        => last_load'.pkg.gitSha = git_sha'[last_load'.project] ]_vars

\* C12: at most one handler at a time is inside git clone for a folder
C12_CloneSerialized ==
    \A p \in Projects : Cardinality(Cloning(p)) <= 1

\* C13: whenever the cache check of generate_pkg reads pkg.json, the file is
\* absent or holds a complete document
C13_AtomicWrite ==
    [][ (Called("generate") /\ last_load'.use_cache)
        => pkg_json[last_load'.project] # Corrupt ]_vars

\* the step has run git clone (the log event "Cloning repository...") and the
\* clone has not produced the checkout
CloneFailed ==
    /\ out'.t # 0
    /\ \E i \in DOMAIN out'.events :
          out'.events[i] = StreamUpdate("log", "repo_loading", NoPlan)
    /\ cloned' = cloned

\* the events of the step from the clone attempt on
SinceClone(events) ==
    LET i == CHOOSE j \in DOMAIN events : events[j] = StreamUpdate("log", "repo_loading", NoPlan)
    IN SubSeq(events, i, Len(events))

C27_RejectedNotExecuted ==
    [][ (/\ out.kind = "reject"
         /\ EventsOfType(out, "status") # {}
         /\ out.plan_arg \in requested
         /\ Named(out.session_id).present
         /\ Named(out.session_id).pending_approval = out.plan_arg
         /\ Dispatched("approve")
         /\ out'.session_id = out.session_id
         /\ out'.plan_arg = out.plan_arg)
        => (/\ tasks'[out'.t].pc # "edit"
            /\ EventsOfType(out', "code_change") = {}) ]_vars

\* C28: after an approve_plan has started the execution of a plan, a repeated
\* approve_plan with the same plan_id does not start a second execution of
\* that plan. Stated for the repeated approve_plan that is the next step after
\* the first one has entered the editing phase
C28_ExecutedOnce ==
    [][ (/\ out.kind = "approve"
         /\ out.t \in TaskIds
         /\ tasks[out.t].pc = "edit"
         /\ Dispatched("approve")
         /\ out'.session_id = out.session_id
         /\ out'.plan_arg = out.plan_arg)
        => tasks'[out'.t].pc # "edit" ]_vars

\* C29: the PKG used for the turn of a chat_message that supplies a repo_url
\* belongs to that repo_url, also when the session last loaded another
\* repository: the session cache never answers with the other repository's PKG
C29_PkgOfSuppliedUrl ==
    \A t \in TaskIds :
        (tasks[t].kind = "chat" /\ HasUrl(tasks[t].repo_url) /\ HasPkg(tasks[t].pkg_data))
            => tasks[t].pkg_data.id = ProjectIdOfUrl(tasks[t].repo_url)

-----------------------------------------------------------------------------
(* Properties of the plan execution *)

\* C15: when the test subprocess times out, a test_result event is streamed
\* whose results carry error "Timeout", and the verification phase is entered
C15_TimeoutContinues ==
    [][ (execution.pc = "testing" /\ execution'.subprocess = "timeout")
        => /\ execution'.test_results.error = "Timeout"
           /\ out'.events = << StreamUpdate("test_result", "testing", execution.plan_id),
                               StreamUpdate("status", "verification", execution.plan_id) >>
           /\ execution'.pc = "verifying" ]_vars

C15_Witness ==
    /\ execution.subprocess = "timeout"
    /\ execution.test_results.error = "Timeout"
    /\ execution.pc = "verifying"

\* C16: when the validation of an edited file has failed, the errors of
\* apply_edits hold an entry for the task and an error event is streamed for it
\* when the editing phase ends, the other files having been processed
C16_ValidationFailureSurfaced ==
    [][ (/\ execution.pc = "editing"
         /\ execution'.pc = "testing"
         /\ \E i \in DOMAIN execution.errors : execution.errors[i].error = "Validation failed")
        => /\ Len(execution.changes) + Len(execution.errors) = Len(execution.plan)
           /\ \E j \in DOMAIN out'.events : IsError(out'.events[j]) ]_vars

\* C17: no file of the working tree holds content for which the Code Validator
\* has reported fatal errors
C17_FatalBlocksWrite ==
    \A f \in Files : execution.tree[f] # "new_fatal"

\* C18: when the code-host API call fails, an error event is streamed and no
\* success summary
C18_ApiFailureIsError ==
    [][ (execution.pc = "pr" /\ execution'.api = "github_error")
        => /\ \E j \in DOMAIN out'.events : IsError(out'.events[j])
           /\ EventsOfType(out', "summary") = {} ]_vars

\* C19: the code host is asked for the pull request only after the feature
\* branch has been pushed, and a fork, where one is made, is made before the push
C19_ForkPushThenPR ==
    \A i \in DOMAIN execution.ops :
        execution.ops[i] = "create_pull" =>
            \E j \in 1..(i - 1) :
                /\ execution.ops[j] = "push"
                /\ \A k \in DOMAIN execution.ops : execution.ops[k] = "fork" => k < j

-----------------------------------------------------------------------------
(* Properties of the PKG queries *)

\* C20: for depths d1 <= d2, the module ids that get_impacted_modules returns
\* for depth d1 are among those it returns for depth d2 on the same PKG and seeds
C20_ImpactMonotone ==
    (query.kind = "impacted" /\ query.d1 <= query.d2)
        => /\ query.r1.ids \subseteq query.r2.ids
           /\ query.r1.modules \subseteq query.r2.modules

\* the deeper query reaches modules that the shallower one does not, and the
\* shallower one reaches modules beyond its seeds
C20_Witness ==
    /\ query.kind = "impacted"
    /\ query.d1 < query.d2
    /\ query.r1.modules # query.r2.modules
    /\ query.r1.modules # {query.module_ids[i] : i \in DOMAIN query.module_ids}

\* C21: fan-in/fan-out symmetry of the in-memory get_dependencies: for modules
\* A and B of the PKG, distinct or not, B is among the callees of A if and only
\* if A is among the callers of B
C21_FanSymmetry ==
    (query.kind = "dependencies" /\ query.neo4j_engine = "none")
        => (query.module_ids[2] \in query.r1.callees
                <=> query.module_ids[1] \in query.r2.callers)

C23_ExtractModuleId ==
    query.kind = "extract"
        => query.r1 = IF Head(query.id_string) = "mod" THEN query.id_string
                      ELSE IF \E path \in Paths : query.id_string = SymId(path, "f")
                           THEN ModId(query.id_string[3])
                           ELSE << >>

-----------------------------------------------------------------------------
(* Properties of the direct calls *)

\* C24: every plan the planner returns, from the LLM or from the fallback,
\* names no .tsx file when the detected framework is Angular and no
\* .component.ts file when it is Flask
C24_FrameworkExtensions ==
    call.kind = "plan"
        => \A i \in DOMAIN call.tasks : \A j \in DOMAIN call.tasks[i].files :
              /\ call.framework = "angular" => call.tasks[i].files[j] # "tsx"
              /\ call.framework = "flask" => call.tasks[i].files[j] # "component.ts"

\* C25, the part that the builder's code decides: after a PKG generation every
\* symbol's moduleId and every entry of every feature's moduleIds is the id of
\* a module in modules[]. The edges come from extract_relationships and are
\* not constrained by the builder
C25_SymbolsFeaturesResolve ==
    call.kind = "build"
        => /\ \A symbol \in call.pkg.symbols : symbol.moduleId \in call.pkg.modules
           /\ \A feature \in call.pkg.features :
                 feature.moduleIds \subseteq call.pkg.modules

\* C26: GET /health on the application built by create_app() returns HTTP 200
\* with a JSON body whose status is "success" and whose data.status is "ok"
C26_HealthEndpoint ==
    (call.kind = "request" /\ call.method = "GET" /\ call.path = "/health")
        => /\ call.response.status_code = 200
           /\ call.response.json.status = "success"
           /\ call.response.json.data.status = "ok"

\* C30: whenever check_pkg_stored reports true, load_pkg_from_neo4j returns the
\* PKG last passed to store_pkg, with the same modules and the same edges under
\* their original type values, a store_pkg that failed part-way included
C30_LoadReturnsStored ==
    (call.kind = "load" /\ call.stored) => call.loaded = {call.pkg}

====
